---------------------------- MODULE Spec2Model ----------------------------
(***************************************************************************)
(* A model of the travel-goals backend (src/app.py): the relational        *)
(* tables as sets of rows, the Flask session of each client, the requests  *)
(* that have executed their SELECT and not yet committed, and the last     *)
(* response produced.  One action per request handler; a handler whose     *)
(* check and write are separate SQL statements that another request can    *)
(* interleave with (approve_destination, approve_package) is split at      *)
(* that point.  Every transaction commits atomically (connection.commit)   *)
(* or leaves the committed tables untouched (connection.rollback).         *)
(***************************************************************************)
EXTENDS Integers, FiniteSets, Sequences, TLC

(***************************************************************************)
(* Bounds of the model.                                                    *)
(***************************************************************************)
MaxPending == 1
MaxBookings == 2
MaxStatusBookings == 1
MaxRegistrations == 1
MaxReviews == 2
MaxThreads == 6

(***************************************************************************)
(* SQL NULL / an absent session key.  Identifiers start at 1.              *)
(***************************************************************************)
NULL == 0

VARIABLES
    users,                  \* USERS rows
    vendor_profiles,        \* VENDOR_PROFILES rows
    pending_destinations,   \* PENDING_DESTINATIONS rows
    destinations,           \* DESTINATIONS rows
    pending_packages,       \* PENDING_PACKAGES rows
    packages,               \* PACKAGES rows
    bookings,               \* BOOKINGS rows
    reviews,                \* REVIEWS rows
    session,                \* client -> the keys of its Flask session
    inflight,               \* client -> its request between SELECT and commit, or Idle
    resp,                   \* the last handler step: handler, id of the route, HTTP status
    next_user_id,           \* the identity sequences of USERS and VENDOR_PROFILES
    next_vendor_id,
    next_review_id,         \* review_id_seq
    dest_origin,            \* history: destination_id -> pending_id it was copied from
    pkg_origin,             \* history: package_id -> pending_pkg_id it was copied from
    client,                 \* chatbot_service.client: the Groq client, or "None"
    pool,                   \* connections of the SessionPool that are checked out
    threads                 \* worker thread -> the handler it runs and its connection

tables == <<users, vendor_profiles, pending_destinations, destinations,
            pending_packages, packages, bookings, reviews>>
sequences == <<next_user_id, next_vendor_id, next_review_id>>
history == <<dest_origin, pkg_origin>>
runtime == <<client, pool, threads>>
vars == <<users, vendor_profiles, pending_destinations, destinations,
          pending_packages, packages, bookings, reviews, session, inflight, resp,
          next_user_id, next_vendor_id, next_review_id, dest_origin, pkg_origin,
          client, pool, threads>>

(***************************************************************************)
(* Worker threads of the server and the connection each one holds:         *)
(* "none" (connection = None), "open" (checked out) or "closed".           *)
(***************************************************************************)
Threads == 1..MaxThreads

IdleThread == [handler |-> "idle", connection |-> "none"]

(***************************************************************************)
(* Clients (browsers holding a session cookie) and their sessions.         *)
(***************************************************************************)
Clients == {"admin1", "admin2", "vendor1", "vendor2", "customer1", "anon"}

NoSession == [user_id |-> NULL, role |-> "", vendor_id |-> NULL]

(* HTTP status a gate answers with, or 0 when the handler body runs. *)
login_required(s) ==
    IF s.user_id = NULL THEN 401 ELSE 0

(* Faulty variant: the admin gate also admits a vendor. *)
admin_required_lax(s) ==
    IF s.user_id = NULL THEN 401
    ELSE IF s.role \notin {"vendor", "admin"} THEN 403
    ELSE 0

admin_required(s) ==
    IF s.user_id = NULL THEN 401
    ELSE IF s.role # "admin" THEN 403
    ELSE 0

vendor_required(s) ==
    IF s.user_id = NULL THEN 401
    ELSE IF s.role \notin {"vendor", "admin"} THEN 403
    ELSE 0

(***************************************************************************)
(* Responses and in-flight requests.  code = 0: the handler has executed   *)
(* its SELECT and produced no response yet.                                *)
(***************************************************************************)
Response(op, id, code) ==
    [op |-> op, id |-> id, code |-> code]

Request(op, id, user_id, result) ==
    [op |-> op, id |-> id, user_id |-> user_id, result |-> result]

(* A client has at most one request outstanding. *)
Idle == Request("idle", NULL, NULL, {})

(* str.strip() on the request fields the model draws its inputs from. *)
Strip(s) ==
    CASE s = " Hunza " -> "Hunza"
      [] s = " nomad " -> "nomad"
      [] s = " ops " -> "ops"
      [] s = "   " -> ""
      [] OTHER -> s

(* str.lower() on the same inputs. *)
Lower(s) ==
    CASE s = "AMNA@tg.pk" -> "amna@tg.pk"
      [] OTHER -> s

(* len(password) on the passwords the model draws from. *)
Len6(password) == password \notin {"", "abc"}

(* `x if x else None` for an optional text field. *)
NoText == "NULL"

OrNone(s) == IF s = "" THEN NoText ELSE s

(***************************************************************************)
(* Request bodies the model draws from.                                    *)
(***************************************************************************)
DestinationInputs ==
    { [name |-> " Hunza ", country |-> "Pakistan", description |-> "valley",
       image_url |-> "hunza.jpg"],
      [name |-> "Bali", country |-> "Indonesia", description |-> "island",
       image_url |-> ""],
      [name |-> "   ", country |-> "Pakistan", description |-> "valley",
       image_url |-> ""] }

PackageInputs ==
    { [destination_id |-> 1, name |-> "Hunza Tour", description |-> "7 days",
       duration_days |-> 7, max_travelers |-> 10, includes |-> "hotel",
       image_url |-> "tour.jpg",
       adult_price |-> 100, child_price |-> 50, infant_price |-> 10,
       economy_adult_price |-> 100, economy_child_price |-> 50,
       economy_infant_price |-> 10,
       business_adult_price |-> 200, business_child_price |-> 120,
       business_infant_price |-> 30],
      [destination_id |-> 1, name |-> "Hunza Trek", description |-> "3 days",
       duration_days |-> 3, max_travelers |-> 4, includes |-> "guide",
       image_url |-> NoText,
       adult_price |-> 60, child_price |-> 40, infant_price |-> 0,
       economy_adult_price |-> 60, economy_child_price |-> 40,
       economy_infant_price |-> 0,
       business_adult_price |-> 90, business_child_price |-> 70,
       business_infant_price |-> 20] }

PackageFields ==
    {"destination_id", "name", "description", "duration_days", "max_travelers",
     "includes", "image_url", "adult_price", "child_price", "infant_price",
     "economy_adult_price", "economy_child_price", "economy_infant_price",
     "business_adult_price", "business_child_price", "business_infant_price"}

DestinationFields == {"name", "country", "description", "image_url"}

(***************************************************************************)
(* The seeded database and the sessions already established: two admins,   *)
(* one verified vendor and one customer are logged in; one destination     *)
(* and one package of the vendor are live.                                 *)
(***************************************************************************)
(* werkzeug's generate_password_hash and the legacy hashlib.sha256 digest. *)
generate_password_hash(password) == <<"scrypt", password>>
hash_password(password) == <<"sha256", password>>

SeedUsers ==
    { [user_id |-> 1, username |-> "root", email |-> "root@tg.pk",
       password_hash |-> generate_password_hash("rootpw1"),
       full_name |-> "Root", phone |-> "0300", role |-> "admin", is_active |-> 1,
       last_login |-> 1],
      [user_id |-> 2, username |-> "ops", email |-> "ops@tg.pk",
       password_hash |-> hash_password("opspw12"),
       full_name |-> "Ops", phone |-> "0301", role |-> "admin", is_active |-> 1,
       last_login |-> 1],
      [user_id |-> 3, username |-> "sky", email |-> "sky@tg.pk",
       password_hash |-> generate_password_hash("skypw12"),
       full_name |-> "Sky", phone |-> "0302", role |-> "vendor", is_active |-> 1,
       last_login |-> 1],
      [user_id |-> 4, username |-> "amna", email |-> "amna@tg.pk",
       password_hash |-> generate_password_hash("amnapw1"),
       full_name |-> "Amna", phone |-> "0303", role |-> "customer", is_active |-> 1,
       last_login |-> 1] }

(* USER_ROLES, the lookup table register and login read by ROLE_NAME / ROLE_ID. *)
user_roles == {"customer", "vendor", "admin"}

SeedVendors ==
    { [vendor_id |-> 1, user_id |-> 3, company_name |-> "SkyTours",
       business_license |-> "L-0", verification_status |-> "verified"] }

SeedSessions ==
    [c \in Clients |->
        CASE c = "admin1" -> [user_id |-> 1, role |-> "admin", vendor_id |-> NULL]
          [] c = "admin2" -> [user_id |-> 2, role |-> "admin", vendor_id |-> NULL]
          [] c = "vendor1" -> [user_id |-> 3, role |-> "vendor", vendor_id |-> 1]
          [] c = "customer1" -> [user_id |-> 4, role |-> "customer", vendor_id |-> NULL]
          [] OTHER -> NoSession]

SeedDestinations ==
    { [destination_id |-> 1, name |-> "Hunza", country |-> "Pakistan",
       description |-> "valley", image_url |-> "hunza.jpg"] }

SeedPackage ==
    [package_id |-> 1, vendor_id |-> 1, destination_id |-> 1, name |-> "Hunza Tour",
     description |-> "7 days", duration_days |-> 7, max_travelers |-> 10,
     includes |-> "hotel", image_url |-> "tour.jpg",
     adult_price |-> 100, child_price |-> 50, infant_price |-> 10,
     economy_adult_price |-> 100, economy_child_price |-> 50,
     economy_infant_price |-> 10,
     business_adult_price |-> 200, business_child_price |-> 120,
     business_infant_price |-> 30, is_active |-> 1]

Init ==
    /\ users = SeedUsers
    /\ vendor_profiles = SeedVendors
    /\ pending_destinations = {}
    /\ destinations = SeedDestinations
    /\ pending_packages = {}
    /\ packages = {SeedPackage}
    /\ bookings = {}
    /\ reviews = {}
    /\ session = SeedSessions
    /\ inflight = [c \in Clients |-> Idle]
    /\ resp = Response("none", NULL, 0)
    /\ next_user_id = 5
    /\ next_vendor_id = 2
    /\ next_review_id = 1
    /\ dest_origin = [d \in {1} |-> NULL]
    /\ pkg_origin = [p \in {1} |-> NULL]
    /\ client = "Groq"
    /\ pool = 0
    /\ threads = [t \in Threads |-> IdleThread]

(***************************************************************************)
(* vendor_add_destination                                                  *)
(***************************************************************************)
(* The identity column of a table no handler deletes from. *)
NextId(rows) == Cardinality(rows) + 1

PendingRows == Cardinality(pending_destinations) + Cardinality(pending_packages)

PendingDestinationRow(s, data) ==
    [pending_id |-> NextId(pending_destinations),
     vendor_id |-> s.vendor_id,
     name |-> Strip(data.name),
     country |-> Strip(data.country),
     description |-> Strip(data.description),
     image_url |-> OrNone(Strip(data.image_url)),
     status |-> "pending",
     reviewed_at |-> NULL,
     reviewed_by |-> NULL]

vendor_add_destination(c, data) ==
    LET s == session[c]
        gate == vendor_required(s)
        op == "vendor_add_destination"
    IN  /\ inflight[c] = Idle
        /\ PendingRows < MaxPending
        /\ UNCHANGED <<runtime, users, vendor_profiles, destinations, pending_packages,
                       packages, bookings, reviews, session, inflight, sequences, history>>
        /\ IF gate # 0
           THEN /\ resp' = Response(op, NULL, gate)
                /\ UNCHANGED pending_destinations
           ELSE IF "" \in {Strip(data.name), Strip(data.country), Strip(data.description)}
           THEN /\ resp' = Response(op, NULL, 400)
                /\ UNCHANGED pending_destinations
           ELSE \/ /\ pending_destinations' =
                        pending_destinations \cup {PendingDestinationRow(s, data)}
                   /\ resp' = Response(op, NULL, 201)
                \/ /\ resp' = Response(op, NULL, 500)
                   /\ UNCHANGED pending_destinations

(***************************************************************************)
(* approve_destination: the SELECT ... AND status = 'pending', then (in    *)
(* the same transaction) the INSERT into destinations and the UPDATE of    *)
(* the pending row, then commit; any exception rolls back.                 *)
(***************************************************************************)
(* Faulty variant: the SELECT without its status filter. *)
SelectPendingDestination_anystatus(pending_id) ==
    { r \in pending_destinations : r.pending_id = pending_id }

SelectPendingDestination(pending_id) ==
    { r \in pending_destinations : r.pending_id = pending_id /\ r.status = "pending" }

DestinationRow(id, result) ==
    [destination_id |-> id,
     name |-> result.name,
     country |-> result.country,
     description |-> result.description,
     image_url |-> result.image_url]

(* Faulty variant: the reviewer is not stamped. *)
Reviewed_unstamped(row, status, admin_id) ==
    [row EXCEPT !.status = status, !.reviewed_at = 1]

(* SET status = :status, reviewed_at = CURRENT_TIMESTAMP, reviewed_by = :admin_id *)
Reviewed(row, status, admin_id) ==
    [row EXCEPT !.status = status, !.reviewed_at = 1, !.reviewed_by = admin_id]

(* UPDATE pending_destinations SET ... WHERE pending_id = :pending_id *)
ReviewDestination(rows, pending_id, status, admin_id) ==
    { IF r.pending_id = pending_id THEN Reviewed(r, status, admin_id) ELSE r : r \in rows }

approve_destination_select(c, pending_id) ==
    LET s == session[c]
        gate == admin_required(s)
        op == "approve_destination"
        result == SelectPendingDestination(pending_id)
    IN  /\ inflight[c] = Idle
        /\ UNCHANGED <<runtime, tables, session, sequences, history>>
        /\ IF gate # 0
           THEN /\ resp' = Response(op, NULL, gate)
                /\ UNCHANGED inflight
           ELSE IF result = {}
           THEN /\ resp' = Response(op, pending_id, 404)
                /\ UNCHANGED inflight
           ELSE /\ inflight' = [inflight EXCEPT ![c] = Request(op, pending_id, s.user_id, result)]
                /\ resp' = Response(op, pending_id, 0)

(* Faulty variant: a conditional update, "approve WHERE status = 'pending'", that
   treats zero rows affected as already processed. *)
approve_destination_commit_conditional(c) ==
    LET r == inflight[c]
        id == NextId(destinations)
        result == CHOOSE x \in r.result : TRUE
        still == SelectPendingDestination(r.id) # {}
    IN  /\ r.op = "approve_destination"
        /\ destinations' = IF still THEN destinations \cup {DestinationRow(id, result)}
                           ELSE destinations
        /\ pending_destinations' =
               IF still
               THEN ReviewDestination(pending_destinations, r.id, "approved", r.user_id)
               ELSE pending_destinations
        /\ dest_origin' = IF still THEN (id :> r.id) @@ dest_origin ELSE dest_origin
        /\ inflight' = [inflight EXCEPT ![c] = Idle]
        /\ resp' = Response(r.op, r.id, IF still THEN 200 ELSE 404)
        /\ UNCHANGED <<runtime, users, vendor_profiles, pending_packages, packages, bookings, reviews,
                       session, sequences, pkg_origin>>

approve_destination_commit(c) ==
    LET r == inflight[c]
        id == NextId(destinations)
        result == CHOOSE x \in r.result : TRUE
    IN  /\ r.op = "approve_destination"
        /\ destinations' = destinations \cup {DestinationRow(id, result)}
        /\ pending_destinations' =
               ReviewDestination(pending_destinations, r.id, "approved", r.user_id)
        /\ dest_origin' = (id :> r.id) @@ dest_origin
        /\ inflight' = [inflight EXCEPT ![c] = Idle]
        /\ resp' = Response(r.op, r.id, 200)
        /\ UNCHANGED <<runtime, users, vendor_profiles, pending_packages, packages, bookings, reviews,
                       session, sequences, pkg_origin>>

(* The INSERT or the UPDATE raises: connection.rollback(), 500. *)
approve_destination_rollback(c) ==
    LET r == inflight[c]
    IN  /\ r.op = "approve_destination"
        /\ inflight' = [inflight EXCEPT ![c] = Idle]
        /\ resp' = Response(r.op, r.id, 500)
        /\ UNCHANGED <<runtime, tables, session, sequences, history>>

(***************************************************************************)
(* reject_destination: one UPDATE ... WHERE pending_id = :pending_id.      *)
(***************************************************************************)
reject_destination(c, pending_id) ==
    LET s == session[c]
        gate == admin_required(s)
        op == "reject_destination"
    IN  /\ inflight[c] = Idle
        /\ UNCHANGED <<runtime, users, vendor_profiles, destinations, pending_packages,
                       packages, bookings, reviews, session, inflight, sequences, history>>
        /\ IF gate # 0
           THEN /\ resp' = Response(op, NULL, gate)
                /\ UNCHANGED pending_destinations
           ELSE \/ /\ pending_destinations' =
                        ReviewDestination(pending_destinations, pending_id,
                                          "rejected", s.user_id)
                   /\ resp' = Response(op, pending_id, 200)
                \/ /\ resp' = Response(op, pending_id, 500)
                   /\ UNCHANGED pending_destinations

(***************************************************************************)
(* vendor_add_package: no validation; every field is data.get(...).        *)
(***************************************************************************)
PendingPackageRow(s, data) ==
    [pending_pkg_id |-> NextId(pending_packages),
     vendor_id |-> s.vendor_id,
     destination_id |-> data.destination_id,
     name |-> data.name,
     description |-> data.description,
     duration_days |-> data.duration_days,
     max_travelers |-> data.max_travelers,
     includes |-> data.includes,
     image_url |-> data.image_url,
     adult_price |-> data.adult_price,
     child_price |-> data.child_price,
     infant_price |-> data.infant_price,
     economy_adult_price |-> data.economy_adult_price,
     economy_child_price |-> data.economy_child_price,
     economy_infant_price |-> data.economy_infant_price,
     business_adult_price |-> data.business_adult_price,
     business_child_price |-> data.business_child_price,
     business_infant_price |-> data.business_infant_price,
     status |-> "pending",
     reviewed_at |-> NULL,
     reviewed_by |-> NULL]

vendor_add_package(c, data) ==
    LET s == session[c]
        gate == vendor_required(s)
        op == "vendor_add_package"
    IN  /\ inflight[c] = Idle
        /\ PendingRows < MaxPending
        /\ UNCHANGED <<runtime, users, vendor_profiles, pending_destinations, destinations,
                       packages, bookings, reviews, session, inflight, sequences, history>>
        /\ IF gate # 0
           THEN /\ resp' = Response(op, NULL, gate)
                /\ UNCHANGED pending_packages
           ELSE \/ /\ pending_packages' =
                        pending_packages \cup {PendingPackageRow(s, data)}
                   /\ resp' = Response(op, NULL, 201)
                \/ /\ resp' = Response(op, NULL, 500)
                   /\ UNCHANGED pending_packages

(***************************************************************************)
(* approve_package: the SELECT returns a tuple of 17 columns, which the    *)
(* INSERT binds by position (:v1 .. :v17) and completes with is_active 1.  *)
(***************************************************************************)
PackageSelectColumns ==
    <<"vendor_id", "destination_id", "name", "description", "duration_days",
      "max_travelers", "includes", "image_url", "adult_price", "child_price",
      "infant_price", "economy_adult_price", "economy_child_price",
      "economy_infant_price", "business_adult_price", "business_child_price",
      "business_infant_price">>

PackageInsertColumns ==
    <<"vendor_id", "destination_id", "name", "description", "duration_days",
      "max_travelers", "includes", "image_url", "adult_price", "child_price",
      "infant_price", "economy_adult_price", "economy_child_price",
      "economy_infant_price", "business_adult_price", "business_child_price",
      "business_infant_price">>

SelectPendingPackage(pending_pkg_id) ==
    { [i \in DOMAIN PackageSelectColumns |-> r[PackageSelectColumns[i]]] :
        r \in { x \in pending_packages :
                  x.pending_pkg_id = pending_pkg_id /\ x.status = "pending" } }

(* Faulty variant: :v9 bound to result[9], the child price, instead of result[8]. *)
PackageRow_misbound(id, result) ==
    [col \in {PackageInsertColumns[i] : i \in DOMAIN PackageInsertColumns}
            \cup {"package_id", "is_active"} |->
        IF col = "package_id" THEN id
        ELSE IF col = "is_active" THEN 1
        ELSE IF col = "adult_price" THEN result[10]
        ELSE result[CHOOSE i \in DOMAIN PackageInsertColumns :
                        PackageInsertColumns[i] = col]]

(* VALUES (:v1, ..., :v17, 1) with 'v<i>': result[i - 1] *)
PackageRow(id, result) ==
    [col \in {PackageInsertColumns[i] : i \in DOMAIN PackageInsertColumns}
            \cup {"package_id", "is_active"} |->
        IF col = "package_id" THEN id
        ELSE IF col = "is_active" THEN 1
        ELSE result[CHOOSE i \in DOMAIN PackageInsertColumns :
                        PackageInsertColumns[i] = col]]

(* UPDATE pending_packages SET ... WHERE pending_pkg_id = :id *)
ReviewPackage(rows, pending_pkg_id, status, admin_id) ==
    { IF r.pending_pkg_id = pending_pkg_id THEN Reviewed(r, status, admin_id) ELSE r :
        r \in rows }

approve_package_select(c, pending_pkg_id) ==
    LET s == session[c]
        gate == admin_required(s)
        op == "approve_package"
        result == SelectPendingPackage(pending_pkg_id)
    IN  /\ inflight[c] = Idle
        /\ UNCHANGED <<runtime, tables, session, sequences, history>>
        /\ IF gate # 0
           THEN /\ resp' = Response(op, NULL, gate)
                /\ UNCHANGED inflight
           ELSE IF result = {}
           THEN /\ resp' = Response(op, pending_pkg_id, 404)
                /\ UNCHANGED inflight
           ELSE /\ inflight' = [inflight EXCEPT
                                  ![c] = Request(op, pending_pkg_id, s.user_id, result)]
                /\ resp' = Response(op, pending_pkg_id, 0)

approve_package_commit(c) ==
    LET r == inflight[c]
        id == NextId(packages)
        result == CHOOSE x \in r.result : TRUE
    IN  /\ r.op = "approve_package"
        /\ packages' = packages \cup {PackageRow(id, result)}
        /\ pending_packages' = ReviewPackage(pending_packages, r.id, "approved", r.user_id)
        /\ pkg_origin' = (id :> r.id) @@ pkg_origin
        /\ inflight' = [inflight EXCEPT ![c] = Idle]
        /\ resp' = Response(r.op, r.id, 200)
        /\ UNCHANGED <<runtime, users, vendor_profiles, pending_destinations, destinations,
                       bookings, reviews, session, sequences, dest_origin>>

(* Faulty variant: the UPDATE raises and the INSERT stays committed. *)
approve_package_rollback_partial(c) ==
    LET r == inflight[c]
        id == NextId(packages)
        result == CHOOSE x \in r.result : TRUE
    IN  /\ r.op = "approve_package"
        /\ packages' = packages \cup {PackageRow(id, result)}
        /\ pkg_origin' = (id :> r.id) @@ pkg_origin
        /\ inflight' = [inflight EXCEPT ![c] = Idle]
        /\ resp' = Response(r.op, r.id, 500)
        /\ UNCHANGED <<runtime, users, vendor_profiles, pending_destinations, destinations,
                       pending_packages, bookings, reviews, session, sequences, dest_origin>>

(* The INSERT or the UPDATE raises: connection.rollback(), 500. *)
approve_package_rollback(c) ==
    LET r == inflight[c]
    IN  /\ r.op = "approve_package"
        /\ inflight' = [inflight EXCEPT ![c] = Idle]
        /\ resp' = Response(r.op, r.id, 500)
        /\ UNCHANGED <<runtime, tables, session, sequences, history>>

(***************************************************************************)
(* reject_package: one UPDATE ... WHERE pending_pkg_id = :id.              *)
(***************************************************************************)
reject_package(c, pending_pkg_id) ==
    LET s == session[c]
        gate == admin_required(s)
        op == "reject_package"
    IN  /\ inflight[c] = Idle
        /\ UNCHANGED <<runtime, users, vendor_profiles, pending_destinations, destinations,
                       packages, bookings, reviews, session, inflight, sequences, history>>
        /\ IF gate # 0
           THEN /\ resp' = Response(op, NULL, gate)
                /\ UNCHANGED pending_packages
           ELSE \/ /\ pending_packages' =
                        ReviewPackage(pending_packages, pending_pkg_id,
                                      "rejected", s.user_id)
                   /\ resp' = Response(op, pending_pkg_id, 200)
                \/ /\ resp' = Response(op, pending_pkg_id, 500)
                   /\ UNCHANGED pending_packages

(***************************************************************************)
(* register                                                                *)
(***************************************************************************)
RegisterInputs ==
    { [full_name |-> "Nomad", username |-> " nomad ", email |-> "nomad@tg.pk",
       phone |-> "0310", password |-> "nomadpw", account_type |-> "vendor",
       company_name |-> "Nomad Co", business_license |-> "L-1"],
      [full_name |-> "Nomad", username |-> "nomad", email |-> "nomad@tg.pk",
       phone |-> "0310", password |-> "nomadpw", account_type |-> "vendor",
       company_name |-> "Nomad Co", business_license |-> ""],
      [full_name |-> "Zara", username |-> "zara", email |-> "zara@tg.pk",
       phone |-> "0311", password |-> "zarapw1", account_type |-> "customer",
       company_name |-> "", business_license |-> ""],
      [full_name |-> "Amna", username |-> "amna2", email |-> "AMNA@tg.pk",
       phone |-> "0312", password |-> "amnapw2", account_type |-> "customer",
       company_name |-> "", business_license |-> ""],
      [full_name |-> "Guide", username |-> "guide", email |-> "guide@tg.pk",
       phone |-> "0313", password |-> "guidepw", account_type |-> "guide",
       company_name |-> "", business_license |-> ""],
      [full_name |-> "Chief", username |-> "chief", email |-> "chief@tg.pk",
       phone |-> "0315", password |-> "chiefpw", account_type |-> "admin",
       company_name |-> "", business_license |-> ""],
      [full_name |-> "Short", username |-> "short", email |-> "short@tg.pk",
       phone |-> "0314", password |-> "abc", account_type |-> "customer",
       company_name |-> "", business_license |-> ""] }

(* Faulty variant: every new account is active. *)
UserRow_active(id, data) ==
    [user_id |-> id,
     username |-> Strip(data.username),
     email |-> Lower(Strip(data.email)),
     password_hash |-> generate_password_hash(data.password),
     full_name |-> Strip(data.full_name),
     phone |-> Strip(data.phone),
     role |-> data.account_type,
     is_active |-> 1,
     last_login |-> NULL]

UserRow(id, data) ==
    [user_id |-> id,
     username |-> Strip(data.username),
     email |-> Lower(Strip(data.email)),
     password_hash |-> generate_password_hash(data.password),
     full_name |-> Strip(data.full_name),
     phone |-> Strip(data.phone),
     role |-> data.account_type,
     is_active |-> IF data.account_type = "customer" THEN 1 ELSE 0,
     last_login |-> NULL]

VendorProfileRow(id, user_id, data) ==
    [vendor_id |-> id,
     user_id |-> user_id,
     company_name |-> Strip(data.company_name),
     business_license |-> Strip(data.business_license),
     verification_status |-> "pending"]

(* Faulty variant: the pending INSERT is committed instead of rolled back. *)
Rollback_committed(committed, pending) == pending

(* connection.rollback(): the rows of the open transaction are discarded. *)
Rollback(committed, pending) == committed

(* The USERS identity advances with the INSERT, also when the transaction is
   rolled back. *)
register(data) ==
    LET op == "register"
        username == Strip(data.username)
        email == Lower(Strip(data.email))
        missing == "" \in {Strip(data.full_name), username, email, Strip(data.phone),
                           data.password}
        taken == \E u \in users : u.username = username \/ u.email = email
    IN  /\ next_user_id < 5 + MaxRegistrations
        /\ UNCHANGED <<runtime, pending_destinations, destinations, pending_packages, packages,
                       bookings, reviews, session, inflight, next_review_id, history>>
        /\ IF missing \/ ~Len6(data.password) \/ data.account_type \notin user_roles
              \/ taken
           THEN /\ resp' = Response(op, NULL, 400)
                /\ UNCHANGED <<users, vendor_profiles, sequences>>
           ELSE IF data.account_type = "vendor"
                   /\ "" \in {Strip(data.company_name), Strip(data.business_license)}
           THEN /\ resp' = Response(op, NULL, 400)
                /\ next_user_id' = next_user_id + 1
                /\ users' = Rollback(users, users \cup {UserRow(next_user_id, data)})
                /\ UNCHANGED <<vendor_profiles, next_vendor_id>>
           ELSE \/ /\ users' = users \cup {UserRow(next_user_id, data)}
                   /\ next_user_id' = next_user_id + 1
                   /\ IF data.account_type = "vendor"
                      THEN /\ vendor_profiles' = vendor_profiles \cup
                                  {VendorProfileRow(next_vendor_id, next_user_id, data)}
                           /\ next_vendor_id' = next_vendor_id + 1
                      ELSE UNCHANGED <<vendor_profiles, next_vendor_id>>
                   /\ resp' = Response(op, NULL, 201)
                \/ /\ resp' = Response(op, NULL, 500)
                   /\ next_user_id' = next_user_id + 1
                   /\ UNCHANGED <<users, vendor_profiles, next_vendor_id>>

(***************************************************************************)
(* approve_vendor: SELECT ... AND verification_status = 'pending', then    *)
(* the two UPDATEs and one commit.                                         *)
(***************************************************************************)
SelectPendingVendor(vendor_id) ==
    { v.user_id : v \in { x \in vendor_profiles :
                            x.vendor_id = vendor_id /\ x.verification_status = "pending" } }

VerifyVendor(rows, vendor_id) ==
    { IF v.vendor_id = vendor_id THEN [v EXCEPT !.verification_status = "verified"] ELSE v :
        v \in rows }

ActivateUser(rows, user_id) ==
    { IF u.user_id = user_id THEN [u EXCEPT !.is_active = 1] ELSE u : u \in rows }

(* Faulty variant: a commit between the two UPDATEs, the second of which raises. *)
approve_vendor_halfway(c, vendor_id) ==
    LET s == session[c]
        gate == admin_required(s)
        op == "approve_vendor"
        result == SelectPendingVendor(vendor_id)
    IN  /\ UNCHANGED <<runtime, pending_destinations, destinations, pending_packages, packages,
                       bookings, reviews, session, inflight, sequences, history>>
        /\ IF gate # 0
           THEN /\ resp' = Response(op, NULL, gate)
                /\ UNCHANGED <<users, vendor_profiles>>
           ELSE IF result = {}
           THEN /\ resp' = Response(op, vendor_id, 404)
                /\ UNCHANGED <<users, vendor_profiles>>
           ELSE /\ vendor_profiles' = VerifyVendor(vendor_profiles, vendor_id)
                /\ UNCHANGED users
                /\ resp' = Response(op, vendor_id, 500)

approve_vendor(c, vendor_id) ==
    LET s == session[c]
        gate == admin_required(s)
        op == "approve_vendor"
        result == SelectPendingVendor(vendor_id)
    IN  /\ UNCHANGED <<runtime, pending_destinations, destinations, pending_packages, packages,
                       bookings, reviews, session, inflight, sequences, history>>
        /\ IF gate # 0
           THEN /\ resp' = Response(op, NULL, gate)
                /\ UNCHANGED <<users, vendor_profiles>>
           ELSE IF result = {}
           THEN /\ resp' = Response(op, vendor_id, 404)
                /\ UNCHANGED <<users, vendor_profiles>>
           ELSE \/ /\ vendor_profiles' = VerifyVendor(vendor_profiles, vendor_id)
                   /\ users' = ActivateUser(users, CHOOSE u \in result : TRUE)
                   /\ resp' = Response(op, vendor_id, 200)
                \/ /\ resp' = Response(op, vendor_id, 500)
                   /\ UNCHANGED <<users, vendor_profiles>>

(***************************************************************************)
(* reject_vendor: SELECT user_id by vendor_id (any status), then DELETE    *)
(* FROM vendor_profiles, user_roles and users, one commit.  USER_ROLES is  *)
(* the lookup table of role names; the rows register and login use carry   *)
(* no user_id, so the second DELETE removes none of them.  No statement    *)
(* touches the tables that reference the vendor or the user.               *)
(***************************************************************************)
SelectVendor(vendor_id) ==
    { v.user_id : v \in { x \in vendor_profiles : x.vendor_id = vendor_id } }

reject_vendor(c, vendor_id) ==
    LET s == session[c]
        gate == admin_required(s)
        op == "reject_vendor"
        result == SelectVendor(vendor_id)
    IN  /\ UNCHANGED <<runtime, pending_destinations, destinations, pending_packages, packages,
                       bookings, reviews, session, inflight, sequences, history>>
        /\ IF gate # 0
           THEN /\ resp' = Response(op, NULL, gate)
                /\ UNCHANGED <<users, vendor_profiles>>
           ELSE IF result = {}
           THEN /\ resp' = Response(op, vendor_id, 404)
                /\ UNCHANGED <<users, vendor_profiles>>
           ELSE \/ /\ vendor_profiles' =
                        { v \in vendor_profiles : v.vendor_id # vendor_id }
                   /\ users' = { u \in users : u.user_id \notin result }
                   /\ resp' = Response(op, vendor_id, 200)
                \/ /\ resp' = Response(op, vendor_id, 500)
                   /\ UNCHANGED <<users, vendor_profiles>>

(***************************************************************************)
(* delete_vendor_package (a soft delete) and toggle_package_status.        *)
(***************************************************************************)
SelectPackage(package_id) == { p \in packages : p.package_id = package_id }

(* Faulty variant: the ownership check lets every caller through. *)
NotOwner_never(result, vendor_id) == FALSE

(* if result[0] != vendor_id: 403 *)
NotOwner(result, vendor_id) == \E p \in result : p.vendor_id # vendor_id

(* UPDATE packages SET <every field of the form> WHERE package_id = :package_id *)
UpdatePackage(rows, package_id, data) ==
    { IF p.package_id = package_id
      THEN [col \in DOMAIN p |-> IF col \in PackageFields THEN data[col] ELSE p[col]]
      ELSE p : p \in rows }

SetActive(rows, package_id, status) ==
    { IF p.package_id = package_id THEN [p EXCEPT !.is_active = status] ELSE p : p \in rows }

(* Faulty variant: the toggle always deactivates. *)
ToggledStatus_off(is_active) == 0

(* new_status = 0 if result[1] == 1 else 1 *)
ToggledStatus(is_active) == IF is_active = 1 THEN 0 ELSE 1

(***************************************************************************)
(* get_packages: the public catalogue, the packages joined with their      *)
(* destination and their vendor profile, WHERE p.is_active = 1.            *)
(***************************************************************************)
(* Faulty variant: the listing without its is_active filter. *)
get_packages_all ==
    { p \in packages :
        /\ \E d \in destinations : d.destination_id = p.destination_id
        /\ \E vp \in vendor_profiles : vp.vendor_id = p.vendor_id }

get_packages ==
    { p \in packages :
        /\ \E d \in destinations : d.destination_id = p.destination_id
        /\ \E vp \in vendor_profiles : vp.vendor_id = p.vendor_id
        /\ p.is_active = 1 }

update_vendor_package(c, package_id, data) ==
    LET s == session[c]
        gate == vendor_required(s)
        op == "update_vendor_package"
        result == SelectPackage(package_id)
    IN  /\ UNCHANGED <<runtime, users, vendor_profiles, pending_destinations, destinations,
                       pending_packages, bookings, reviews, session, inflight, sequences, history>>
        /\ IF gate # 0
           THEN /\ resp' = Response(op, NULL, gate)
                /\ UNCHANGED packages
           ELSE IF result = {}
           THEN /\ resp' = Response(op, package_id, 404)
                /\ UNCHANGED packages
           ELSE IF NotOwner(result, s.vendor_id)
           THEN /\ resp' = Response(op, package_id, 403)
                /\ UNCHANGED packages
           ELSE \/ /\ packages' = UpdatePackage(packages, package_id, data)
                   /\ resp' = Response(op, package_id, 200)
                \/ /\ resp' = Response(op, package_id, 500)
                   /\ UNCHANGED packages

delete_vendor_package(c, package_id) ==
    LET s == session[c]
        gate == vendor_required(s)
        op == "delete_vendor_package"
        result == SelectPackage(package_id)
    IN  /\ UNCHANGED <<runtime, users, vendor_profiles, pending_destinations, destinations,
                       pending_packages, bookings, reviews, session, inflight, sequences, history>>
        /\ IF gate # 0
           THEN /\ resp' = Response(op, NULL, gate)
                /\ UNCHANGED packages
           ELSE IF result = {}
           THEN /\ resp' = Response(op, package_id, 404)
                /\ UNCHANGED packages
           ELSE IF NotOwner(result, s.vendor_id)
           THEN /\ resp' = Response(op, package_id, 403)
                /\ UNCHANGED packages
           ELSE \/ /\ packages' = SetActive(packages, package_id, 0)
                   /\ resp' = Response(op, package_id, 200)
                \/ /\ resp' = Response(op, package_id, 500)
                   /\ UNCHANGED packages

toggle_package_status(c, package_id) ==
    LET s == session[c]
        gate == vendor_required(s)
        op == "toggle_package_status"
        result == SelectPackage(package_id)
    IN  /\ UNCHANGED <<runtime, users, vendor_profiles, pending_destinations, destinations,
                       pending_packages, bookings, reviews, session, inflight, sequences, history>>
        /\ IF gate # 0
           THEN /\ resp' = Response(op, NULL, gate)
                /\ UNCHANGED packages
           ELSE IF result = {}
           THEN /\ resp' = Response(op, package_id, 404)
                /\ UNCHANGED packages
           ELSE IF NotOwner(result, s.vendor_id)
           THEN /\ resp' = Response(op, package_id, 403)
                /\ UNCHANGED packages
           ELSE \/ /\ \E p \in result :
                        packages' = SetActive(packages, package_id,
                                              ToggledStatus(p.is_active))
                   /\ resp' = Response(op, package_id, 200)
                \/ /\ resp' = Response(op, package_id, 500)
                   /\ UNCHANGED packages

(***************************************************************************)
(* create_booking.  The request body carries its numbers as numbers; a     *)
(* missing key reads as "" or 0, which data.get treats alike.              *)
(***************************************************************************)
BookingRequest ==
    [package_id |-> 1, from_location |-> "Lahore", to_location |-> "Hunza",
     departure_date |-> "2026-05-01", departure_time |-> "09:00",
     return_date |-> "", return_time |-> "",
     preferred_airline |-> "PIA", preferred_seating |-> "economy",
     num_adults |-> 2, num_children |-> 1, num_infants |-> 0,
     fare_type |-> "one_way", message |-> "", full_name |-> "Amna",
     phone |-> "0303", email |-> "amna@tg.pk", total_price |-> 250]

BookingInputs ==
    { BookingRequest,
      [BookingRequest EXCEPT !.total_price = 1],
      [BookingRequest EXCEPT !.preferred_seating = "business", !.total_price = 520],
      [BookingRequest EXCEPT !.package_id = 9],
      [BookingRequest EXCEPT !.total_price = 0],
      [BookingRequest EXCEPT !.total_price = -5],
      [BookingRequest EXCEPT !.fare_type = "round_trip"],
      [BookingRequest EXCEPT !.email = "amna"],
      [BookingRequest EXCEPT !.num_adults = 1, !.num_children = -1] }

BookingRequiredFields ==
    {"package_id", "from_location", "to_location", "departure_date", "departure_time",
     "preferred_airline", "preferred_seating", "num_adults", "fare_type", "full_name",
     "phone", "email", "total_price"}

BookingNumberFields == {"package_id", "num_adults", "total_price"}

(* `not data.get(field)`: absent, empty or zero. *)
Falsy(data, field) ==
    IF field \in BookingNumberFields THEN data[field] = 0 ELSE data[field] = ""

(* '@' in email and '.' in email, on the addresses the model draws from. *)
HasAtAndDot(email) == email \notin {"amna", ""}

BookingRow(id, user_id, data) ==
    LET round == data.fare_type = "round_trip"
        return_date == IF round THEN Strip(data.return_date) ELSE ""
        return_time == IF round THEN Strip(data.return_time) ELSE ""
    IN  [booking_id |-> id,
         user_id |-> user_id,
         package_id |-> data.package_id,
         from_location |-> Strip(data.from_location),
         to_location |-> Strip(data.to_location),
         departure_date |-> Strip(data.departure_date),
         departure_time |-> Strip(data.departure_time),
         return_date |-> OrNone(return_date),
         return_time |-> OrNone(return_time),
         preferred_airline |-> data.preferred_airline,
         preferred_seating |-> data.preferred_seating,
         num_adults |-> data.num_adults,
         num_children |-> data.num_children,
         num_infants |-> data.num_infants,
         num_travelers |-> data.num_adults + data.num_children + data.num_infants,
         fare_type |-> data.fare_type,
         message |-> Strip(data.message),
         total_price |-> data.total_price,
         customer_full_name |-> Strip(data.full_name),
         customer_phone |-> Strip(data.phone),
         customer_email |-> Lower(Strip(data.email)),
         status |-> "pending",
         rejection_reason |-> NoText,
         payment_status |-> NoText,
         payment_method |-> NoText,
         payment_date |-> NULL,
         payment_transaction_id |-> NoText]

create_booking(c, data) ==
    LET s == session[c]
        op == "create_booking"
        round == data.fare_type = "round_trip"
        total_travelers == data.num_adults + data.num_children + data.num_infants
    IN  /\ Cardinality(bookings) < MaxBookings
        /\ UNCHANGED <<runtime, users, vendor_profiles, pending_destinations, destinations,
                       pending_packages, packages, reviews, session, inflight,
                       sequences, history>>
        /\ IF s.user_id = NULL
           THEN /\ resp' = Response(op, NULL, 401)
                /\ UNCHANGED bookings
           ELSE IF \/ \E f \in BookingRequiredFields : Falsy(data, f)
                   \/ ~HasAtAndDot(Lower(Strip(data.email)))
                   \/ (round /\ "" \in {Strip(data.return_date), Strip(data.return_time)})
                   \/ total_travelers = 0
                   \/ data.total_price <= 0
           THEN /\ resp' = Response(op, NULL, 400)
                /\ UNCHANGED bookings
           ELSE IF SelectPackage(data.package_id) = {}
           THEN /\ resp' = Response(op, data.package_id, 404)
                /\ UNCHANGED bookings
           ELSE \/ /\ bookings' = bookings \cup
                                     {BookingRow(NextId(bookings), s.user_id, data)}
                   /\ resp' = Response(op, data.package_id, 201)
                \/ /\ resp' = Response(op, data.package_id, 500)
                   /\ UNCHANGED bookings

(***************************************************************************)
(* update_booking_status.  The vendor is identified by the company name    *)
(* of the profile of the session's user; the booking is the vendor's when  *)
(* that name equals, after UPPER(TRIM(.)), the booking's preferred_airline *)
(* or the company name of the vendor of the booking's package.             *)
(***************************************************************************)
BookingStatuses == {"confirmed", "cancelled", "pending", "completed"}

StatusInputs ==
    { [status |-> "confirmed", message |-> "see you", rejection_reason |-> ""],
      [status |-> "pending", message |-> "", rejection_reason |-> ""],
      [status |-> "completed", message |-> "", rejection_reason |-> ""],
      [status |-> "cancelled", message |-> "sold out", rejection_reason |-> "late"],
      [status |-> "cancelled", message |-> "", rejection_reason |-> "sold out"],
      [status |-> "cancelled", message |-> "", rejection_reason |-> ""],
      [status |-> "refunded", message |-> "", rejection_reason |-> ""] }

(* UPPER(TRIM(.)) on the names the model draws from. *)
UpperTrim(s) ==
    CASE s = " wings " -> "WINGS"
      [] s = "Wings" -> "WINGS"
      [] s = "SkyTours" -> "SKYTOURS"
      [] OTHER -> s

(* SELECT company_name FROM vendor_profiles WHERE user_id = :user_id *)
SelectCompanyName(user_id) ==
    { v.company_name : v \in { w \in vendor_profiles : w.user_id = user_id } }

(* The SELECT that verifies the booking belongs to the vendor. *)
SelectVendorBooking(booking_id, company_name) ==
    { b \in bookings :
        /\ b.booking_id = booking_id
        /\ \/ UpperTrim(b.preferred_airline) = UpperTrim(company_name)
           \/ \E p \in packages, v \in vendor_profiles :
                /\ p.package_id = b.package_id
                /\ v.vendor_id = p.vendor_id
                /\ UpperTrim(v.company_name) = UpperTrim(company_name) }

(* data.get('message') or data.get('rejection_reason', '') *)
RejectionReason(data) ==
    IF data.message # "" THEN data.message ELSE data.rejection_reason

(* Faulty variant: the status UPDATE also clears payment_status. *)
SetStatus_resetpayment(rows, booking_id, new_status, reason) ==
    { IF b.booking_id = booking_id
      THEN [b EXCEPT !.status = new_status, !.payment_status = NoText]
      ELSE b : b \in rows }

(* Faulty variant: a completed booking keeps its status. *)
SetStatus_forwardonly(rows, booking_id, new_status, reason) ==
    { IF b.booking_id = booking_id /\ b.status # "completed"
      THEN IF new_status = "cancelled"
           THEN [b EXCEPT !.status = new_status, !.rejection_reason = OrNone(reason)]
           ELSE [b EXCEPT !.status = new_status]
      ELSE b : b \in rows }

(* The two UPDATE statements; Oracle stores the empty string as NULL. *)
SetStatus(rows, booking_id, new_status, reason) ==
    { IF b.booking_id = booking_id
      THEN IF new_status = "cancelled"
           THEN [b EXCEPT !.status = new_status, !.rejection_reason = OrNone(reason)]
           ELSE [b EXCEPT !.status = new_status]
      ELSE b : b \in rows }

update_booking_status(c, booking_id, data) ==
    LET s == session[c]
        gate == vendor_required(s)
        op == "update_booking_status"
        vendor_row == SelectCompanyName(s.user_id)
    IN  /\ UNCHANGED <<runtime, users, vendor_profiles, pending_destinations, destinations,
                       pending_packages, packages, reviews, session, inflight,
                       sequences, history>>
        /\ IF gate # 0
           THEN /\ resp' = Response(op, NULL, gate)
                /\ UNCHANGED bookings
           ELSE IF data.status \notin BookingStatuses
           THEN /\ resp' = Response(op, NULL, 400)
                /\ UNCHANGED bookings
           ELSE IF vendor_row = {}
           THEN /\ resp' = Response(op, NULL, 404)
                /\ UNCHANGED bookings
           ELSE IF \A company_name \in vendor_row :
                      SelectVendorBooking(booking_id, company_name) = {}
           THEN /\ resp' = Response(op, booking_id, 404)
                /\ UNCHANGED bookings
           ELSE \/ /\ bookings' = SetStatus(bookings, booking_id, data.status,
                                            RejectionReason(data))
                   /\ resp' = Response(op, booking_id, 200)
                \/ /\ resp' = Response(op, booking_id, 500)
                   /\ UNCHANGED bookings

(***************************************************************************)
(* process_payment: the payment simulator.  The card is validated, the     *)
(* payment is accepted or declined at random, and only then the booking    *)
(* is looked up and its payment columns are written.                       *)
(***************************************************************************)
Card ==
    [card_number |-> "4111 1111 1111 1111", card_holder |-> " Amna Khan ",
     expiry_month |-> "12", expiry_year |-> "2030", cvv |-> "123"]

CardInputs ==
    { Card,
      [Card EXCEPT !.card_number = "4111 1111"],
      [Card EXCEPT !.card_number = "4111 1111 1111 111x"],
      [Card EXCEPT !.card_holder = "   "],
      [Card EXCEPT !.card_holder = "ab"],
      [Card EXCEPT !.expiry_month = ""],
      [Card EXCEPT !.expiry_year = ""],
      [Card EXCEPT !.cvv = "12"],
      [Card EXCEPT !.cvv = "12a"] }

(* card_number.replace(' ', '') on the numbers the model draws from. *)
RemoveSpaces(card_number) ==
    CASE card_number = "4111 1111 1111 1111" -> "4111111111111111"
      [] card_number = "4111 1111" -> "41111111"
      [] card_number = "4111 1111 1111 111x" -> "411111111111111x"
      [] OTHER -> card_number

(* len(card_number) == 16 and card_number.isdigit() *)
SixteenDigits(card_number) == card_number = "4111111111111111"

(* card_holder.strip(), on the holders the model draws from. *)
StripHolder(card_holder) ==
    CASE card_holder = " Amna Khan " -> "Amna Khan"
      [] card_holder = "   " -> ""
      [] OTHER -> card_holder

(* card_holder and len(card_holder) >= 3 *)
ThreeOrMore(card_holder) == card_holder \notin {"", "ab"}

(* len(cvv) == 3 and cvv.isdigit() *)
ThreeDigits(cvv) == cvv = "123"

(* The payment method text: "Credit Card", masked, with card_number[-4:]. *)
PaymentMethod(card_number) ==
    IF card_number = "4111111111111111"
    THEN "Credit Card 1111"
    ELSE "Credit Card"

(* 'TXN' followed by twelve random characters. *)
generate_transaction_id == {"TXN7Q2", "TXNK9D"}

(* CURRENT_TIMESTAMP / SYSDATE of a statement executed after start-up. *)
CURRENT_TIMESTAMP == 2

CardValid(data) ==
    /\ SixteenDigits(RemoveSpaces(data.card_number))
    /\ ThreeOrMore(StripHolder(data.card_holder))
    /\ data.expiry_month # ""
    /\ data.expiry_year # ""
    /\ ThreeDigits(data.cvv)

SetPaid(rows, booking_id, method, txn_id) ==
    { IF b.booking_id = booking_id
      THEN [b EXCEPT !.payment_status = "Paid",
                     !.payment_method = method,
                     !.payment_date = CURRENT_TIMESTAMP,
                     !.payment_transaction_id = txn_id]
      ELSE b : b \in rows }

process_payment(booking_id, data) ==
    LET op == "process_payment"
        card_number == RemoveSpaces(data.card_number)
    IN  /\ UNCHANGED <<runtime, users, vendor_profiles, pending_destinations, destinations,
                       pending_packages, packages, reviews, session, inflight,
                       sequences, history>>
        /\ IF ~CardValid(data)
           THEN /\ resp' = Response(op, NULL, 400)
                /\ UNCHANGED bookings
           ELSE \/ /\ resp' = Response(op, NULL, 400)     \* payment declined
                   /\ UNCHANGED bookings
                \/ /\ { b \in bookings : b.booking_id = booking_id } = {}
                   /\ resp' = Response(op, booking_id, 404)
                   /\ UNCHANGED bookings
                \/ /\ { b \in bookings : b.booking_id = booking_id } # {}
                   /\ \E txn_id \in generate_transaction_id :
                        bookings' = SetPaid(bookings, booking_id,
                                            PaymentMethod(card_number), txn_id)
                   /\ resp' = Response(op, booking_id, 200)
                \/ /\ resp' = Response(op, booking_id, 500)
                   /\ UNCHANGED bookings

(***************************************************************************)
(* submit_review.  A rating arrives as a JSON number (whole part and       *)
(* tenths), as text, or not at all; int() truncates a number, parses a     *)
(* text of digits and raises ValueError on any other text.                 *)
(***************************************************************************)
Rating(type, whole, tenths, text) ==
    [type |-> type, whole |-> whole, tenths |-> tenths, text |-> text]

ReviewInputs ==
    { [rating |-> Rating("number", 5, 0, ""), user_name |-> " Amna "],
      [rating |-> Rating("number", 5, 0, ""), user_name |-> "   "],
      [rating |-> Rating("number", 1, 0, ""), user_name |-> " Amna "],
      [rating |-> Rating("number", 0, 0, ""), user_name |-> " Amna "],
      [rating |-> Rating("number", 6, 0, ""), user_name |-> " Amna "],
      [rating |-> Rating("number", 5, 9, ""), user_name |-> " Amna "],
      [rating |-> Rating("number", 0, 5, ""), user_name |-> " Amna "],
      [rating |-> Rating("text", 0, 0, "4"), user_name |-> " Amna "],
      [rating |-> Rating("text", 0, 0, "abc"), user_name |-> " Amna "],
      [rating |-> Rating("text", 0, 0, ""), user_name |-> " Amna "],
      [rating |-> Rating("none", 0, 0, ""), user_name |-> " Amna "] }

(* `not rating` *)
NotRating(rating) ==
    \/ rating.type = "none"
    \/ rating.type = "number" /\ rating.whole = 0 /\ rating.tenths = 0
    \/ rating.type = "text" /\ rating.text = ""

(* int(rating) raises ValueError *)
IntRaises(rating) ==
    rating.type = "text" /\ rating.text # "4"

(* int(rating) *)
IntOf(rating) ==
    IF rating.type = "text" THEN 4 ELSE rating.whole

(* user_name.strip(), 'Anonymous' when empty *)
UserName(user_name) ==
    CASE user_name = " Amna " -> "Amna"
      [] user_name = "   " -> "Anonymous"
      [] OTHER -> user_name

ReviewRow(id, package_id, user_id, data) ==
    [review_id |-> id, package_id |-> package_id, user_id |-> user_id,
     user_name |-> UserName(data.user_name), rating |-> IntOf(data.rating)]

submit_review(c, package_id, data) ==
    LET op == "submit_review"
        rating == data.rating
    IN  /\ next_review_id <= MaxReviews
        /\ UNCHANGED <<runtime, users, vendor_profiles, pending_destinations, destinations,
                       pending_packages, packages, bookings, session, inflight,
                       next_user_id, next_vendor_id, history>>
        /\ IF NotRating(rating)
           THEN /\ resp' = Response(op, NULL, 400)
                /\ UNCHANGED <<reviews, next_review_id>>
           ELSE IF IntRaises(rating)
           THEN /\ resp' = Response(op, NULL, 500)
                /\ UNCHANGED <<reviews, next_review_id>>
           ELSE IF IntOf(rating) \notin 1..5
           THEN /\ resp' = Response(op, NULL, 400)
                /\ UNCHANGED <<reviews, next_review_id>>
           ELSE IF SelectPackage(package_id) = {}
           THEN \/ /\ resp' = Response(op, package_id, 404)
                   /\ UNCHANGED <<reviews, next_review_id>>
                \/ /\ resp' = Response(op, package_id, 500)
                   /\ UNCHANGED <<reviews, next_review_id>>
           ELSE \/ /\ reviews' = reviews \cup
                          {ReviewRow(next_review_id, package_id, session[c].user_id, data)}
                   /\ next_review_id' = next_review_id + 1
                   /\ resp' = Response(op, package_id, 200)
                \/ /\ resp' = Response(op, package_id, 500)
                   /\ next_review_id' \in {next_review_id, next_review_id + 1}
                   /\ UNCHANGED reviews

(***************************************************************************)
(* login.  The password is checked against the secure hash, then against   *)
(* the legacy SHA-256 digest; a legacy hash is migrated and committed      *)
(* before the account checks; last_login and the session keys are written  *)
(* only at the end.  session['vendor_id'] is set only for a user with a    *)
(* vendor profile; no key is removed.                                      *)
(***************************************************************************)
LoginInputs ==
    { [username |-> "amna", password |-> "amnapw1"],
      [username |-> "amna", password |-> "amnapw2"],
      [username |-> " ops ", password |-> "opspw12"],
      [username |-> "ops", password |-> "rootpw1"],
      [username |-> "sky", password |-> "skypw12"],
      [username |-> "nomad", password |-> "nomadpw"],
      [username |-> "nomad", password |-> "zarapw1"],
      [username |-> "ghost", password |-> "amnapw1"],
      [username |-> "   ", password |-> "amnapw1"],
      [username |-> "amna", password |-> ""] }

(* Faulty variant: every password is accepted. *)
check_password_hash_always(stored_hash, password) == TRUE

(* werkzeug's check_password_hash; False for a bare SHA-256 digest. *)
check_password_hash(stored_hash, password) ==
    stored_hash = generate_password_hash(password)

(* SELECT ... FROM USERS u JOIN USER_ROLES ur LEFT JOIN VENDOR_PROFILES vp *)
SelectUser(username) ==
    { [user |-> u,
       vendor_id |-> IF \E v \in vendor_profiles : v.user_id = u.user_id
                     THEN (CHOOSE v \in vendor_profiles : v.user_id = u.user_id).vendor_id
                     ELSE NULL,
       verification_status |->
                     IF \E v \in vendor_profiles : v.user_id = u.user_id
                     THEN (CHOOSE v \in vendor_profiles :
                              v.user_id = u.user_id).verification_status
                     ELSE NoText] :
      u \in { w \in users : w.username = username /\ w.role \in user_roles } }

(* Faulty variant: the UPDATE has no WHERE clause. *)
SetPasswordHash_all(rows, user_id, new_hash) ==
    { [u EXCEPT !.password_hash = new_hash] : u \in rows }

(* UPDATE USERS SET PASSWORD_HASH = :h WHERE USER_ID = :id *)
SetPasswordHash(rows, user_id, new_hash) ==
    { IF u.user_id = user_id THEN [u EXCEPT !.password_hash = new_hash] ELSE u :
      u \in rows }

SetLastLogin(rows, user_id) ==
    { IF u.user_id = user_id THEN [u EXCEPT !.last_login = CURRENT_TIMESTAMP] ELSE u :
      u \in rows }

(* Faulty variant: no account is refused. *)
AccountRefused_never(user, verification_status) == FALSE

(* if not is_active: 403; if role_name == 'vendor' and verification_status
   != 'verified': 403 *)
AccountRefused(user, verification_status) ==
    \/ user.is_active # 1
    \/ user.role = "vendor" /\ verification_status # "verified"

login(c, data) ==
    LET op == "login"
        username == Strip(data.username)
        password == data.password
    IN  /\ UNCHANGED <<runtime, vendor_profiles, pending_destinations, destinations,
                       pending_packages, packages, bookings, reviews, inflight,
                       sequences, history>>
        /\ IF username = "" \/ password = ""
           THEN /\ resp' = Response(op, NULL, 400)
                /\ UNCHANGED <<users, session>>
           ELSE IF SelectUser(username) = {}
           THEN /\ resp' = Response(op, NULL, 401)
                /\ UNCHANGED <<users, session>>
           ELSE \E row \in SelectUser(username) :
                LET user == row.user
                    secure == check_password_hash(user.password_hash, password)
                    password_needs_rehash ==
                        ~secure /\ hash_password(password) = user.password_hash
                    verified == secure \/ password_needs_rehash
                IN  IF ~verified
                    THEN /\ resp' = Response(op, user.user_id, 401)
                         /\ UNCHANGED <<users, session>>
                    ELSE \E migrated \in
                            IF password_needs_rehash
                            THEN { SetPasswordHash(users, user.user_id,
                                                   generate_password_hash(password)),
                                   users }
                            ELSE { users } :
                         IF AccountRefused(user, row.verification_status)
                         THEN /\ resp' = Response(op, user.user_id, 403)
                              /\ users' = migrated
                              /\ UNCHANGED session
                         ELSE \/ /\ users' = SetLastLogin(migrated, user.user_id)
                                 /\ session' =
                                      [session EXCEPT ![c] =
                                          [user_id |-> user.user_id,
                                           role |-> user.role,
                                           vendor_id |->
                                              IF row.vendor_id # NULL
                                              THEN row.vendor_id
                                              ELSE session[c].vendor_id]]
                                 /\ resp' = Response(op, user.user_id, 200)
                              \/ /\ resp' = Response(op, user.user_id, 500)
                                 /\ users' = migrated
                                 /\ UNCHANGED session

(***************************************************************************)
(* get_my_bookings: the bookings of the logged-in user, joined with their  *)
(* package, destination and vendor; a read that writes nothing.            *)
(***************************************************************************)
SelectMyBookings(user_id) ==
    { b \in bookings :
        /\ b.user_id = user_id
        /\ \E p \in packages :
              /\ p.package_id = b.package_id
              /\ \E d \in destinations : d.destination_id = p.destination_id
              /\ \E v \in vendor_profiles : v.vendor_id = p.vendor_id }

get_my_bookings(c) ==
    LET s == session[c]
        gate == login_required(s)
        op == "get_my_bookings"
    IN  /\ UNCHANGED <<runtime, tables, session, inflight, sequences, history>>
        /\ IF gate # 0
           THEN resp' = Response(op, NULL, gate)
           ELSE \/ resp' = Response(op, Cardinality(SelectMyBookings(s.user_id)), 200)
                \/ resp' = Response(op, NULL, 500)

(***************************************************************************)
(* The travel assistant.  A message is the sequence of its words, " " for  *)
(* a run of whitespace; the provider either completes the call with a      *)
(* choice, completes it with no choice, or raises.  The destinations and   *)
(* packages read for the system prompt do not bear on the outcome.         *)
(***************************************************************************)
ChatInputs ==
    { [message |-> <<>>],
      [message |-> <<" ">>],
      [message |-> <<" ", "hello", "there">>],
      [message |-> <<"Book", "a", "trip">>],
      [message |-> <<"is", "it", "cheap">>],
      [message |-> <<"which", "country", " ">>] }

Completions == {"choice", "no choice", "raise"}

(* str.strip() of a message: the whitespace at its ends is dropped. *)
StripMessage(message) == SelectSeq(message, LAMBDA w : w # " ")

(* str.lower() of a word. *)
LowerWord(w) == IF w = "Book" THEN "book" ELSE w

(* any(word in user_lower for word in words) *)
AnyWordIn(user_message, words) ==
    \E i \in DOMAIN user_message : LowerWord(user_message[i]) \in words

(* TravelChatbot.chat *)
chat(ai_client, user_message, completion) ==
    IF ai_client = "None"
    THEN [success |-> FALSE, message |-> "Chat service is currently unavailable"]
    ELSE IF StripMessage(user_message) = <<>>
    THEN [success |-> FALSE, message |-> "Please enter a message."]
    ELSE IF completion = "choice"
    THEN [success |-> TRUE, message |-> "response.choices[0].message.content"]
    ELSE IF completion = "no choice"
    THEN [success |-> FALSE, message |-> "I couldn't generate a response"]
    ELSE IF AnyWordIn(user_message, {"book", "booking", "reserve"})
    THEN [success |-> TRUE, message |-> "To make a booking, please visit"]
    ELSE IF AnyWordIn(user_message, {"price", "cost", "how much", "cheap", "budget"})
    THEN [success |-> TRUE, message |-> "Our packages range from $900 to $2500+"]
    ELSE IF AnyWordIn(user_message, {"destination", "where", "place", "country"})
    THEN [success |-> TRUE, message |-> "We offer amazing destinations"]
    ELSE [success |-> FALSE, message |-> "Sorry, I encountered a temporary issue"]

chat_with_ai(data, completion) ==
    LET op == "chat_with_ai"
        user_message == StripMessage(data.message)
        response == chat(client, user_message, completion)
    IN  /\ UNCHANGED <<runtime, tables, session, inflight, sequences, history>>
        /\ IF user_message = <<>>
           THEN resp' = Response(op, NULL, 400)
           ELSE resp' = Response(op, NULL, IF response.success THEN 200 ELSE 500)

(***************************************************************************)
(* The connection pool.  get_db_connection returns pool.acquire(), or None *)
(* when the pool has no connection to give or the database refuses.  A     *)
(* handler runs on a worker thread between its acquire and its finally     *)
(* block; closing an open connection returns it to the pool, closing a     *)
(* closed one returns nothing.                                             *)
(***************************************************************************)
pool_max == 5

get_db_connection ==
    IF pool < pool_max THEN {"open", "none"} ELSE {"none"}

(* Faulty variant: every close hands a connection back to the pool. *)
close_always(busy, connection) == busy - 1

(* connection.close() *)
close(busy, connection) ==
    IF connection = "open" THEN busy - 1 ELSE busy

Running(t, handler, connection) ==
    [threads EXCEPT ![t] = [handler |-> handler, connection |-> connection]]

(* create_booking up to the inner try: the login and validation answers
   come before any connection is taken; connection.cursor() on the
   connection just acquired opens a local handle and does not fail. *)
create_booking_begin(t) ==
    LET op == "create_booking"
    IN  /\ threads[t] = IdleThread
        /\ UNCHANGED <<tables, session, inflight, sequences, history, client>>
        /\ \/ /\ \E code \in {401, 400} : resp' = Response(op, NULL, code)
              /\ UNCHANGED <<pool, threads>>
           \/ \E connection \in get_db_connection :
                 IF connection = "none"
                 THEN /\ resp' = Response(op, NULL, 500)
                      /\ UNCHANGED <<pool, threads>>
                 ELSE /\ pool' = pool + 1
                      /\ threads' = Running(t, op, connection)
                      /\ UNCHANGED resp

(* create_booking's inner try, except and finally: cursor.close() and
   connection.close() on every outcome. *)
create_booking_end(t) ==
    LET op == "create_booking"
    IN  /\ threads[t].handler = op
        /\ UNCHANGED <<tables, session, inflight, sequences, history, client>>
        /\ \E code \in {201, 400, 500} : resp' = Response(op, NULL, code)
        /\ pool' = close(pool, threads[t].connection)
        /\ threads' = Running(t, "idle", "none")

(* summarize_package_reviews: connection.cursor() on None raises, which the
   except turns into 500. *)
summarize_package_reviews_begin(t) ==
    LET op == "summarize_package_reviews"
    IN  /\ threads[t] = IdleThread
        /\ UNCHANGED <<tables, session, inflight, sequences, history, client>>
        /\ \E connection \in get_db_connection :
              IF connection = "none"
              THEN /\ resp' = Response(op, NULL, 500)
                   /\ UNCHANGED <<pool, threads>>
              ELSE /\ pool' = pool + 1
                   /\ threads' = Running(t, op, connection)
                   /\ UNCHANGED resp

(* The two queries: 404 and the except leave through the finally block; on
   success the handler closes cursor and connection itself and goes on. *)
summarize_package_reviews_query(t) ==
    LET op == "summarize_package_reviews"
    IN  /\ threads[t] = [handler |-> op, connection |-> "open"]
        /\ UNCHANGED <<tables, session, inflight, sequences, history, client>>
        /\ pool' = close(pool, threads[t].connection)
        /\ \/ /\ \E code \in {404, 500} : resp' = Response(op, NULL, code)
              /\ threads' = Running(t, "idle", "none")
           \/ /\ threads' = Running(t, op, "closed")
              /\ UNCHANGED resp

(* The summary, then the finally block closes the closed cursor and
   connection again: the library either ignores that or raises, and the
   request then ends in 500. *)
summarize_package_reviews_finally(t) ==
    LET op == "summarize_package_reviews"
    IN  /\ threads[t] = [handler |-> op, connection |-> "closed"]
        /\ UNCHANGED <<tables, session, inflight, sequences, history, client>>
        /\ pool' = close(pool, threads[t].connection)
        /\ \E code \in {200, 500} : resp' = Response(op, NULL, code)
        /\ threads' = Running(t, "idle", "none")

(***************************************************************************)
(* The moderation workflow.  Submissions come from the vendor, a customer  *)
(* and a client that is not logged in; every client may call the admin     *)
(* endpoints, for every pending id in use and one that is absent.          *)
(***************************************************************************)
Submitters == {"vendor1", "customer1", "anon"}

(* A request the admin gate turns away never reads the id of its route. *)
AdminRouteIds(c, ids) ==
    IF admin_required(session[c]) = 0 THEN ids ELSE {NULL}

PendingIds == 1..(MaxPending + 1)

NextModeration ==
    \/ \E c \in Submitters, data \in DestinationInputs : vendor_add_destination(c, data)
    \/ \E c \in Submitters, data \in PackageInputs : vendor_add_package(c, data)
    \/ \E c \in Clients : \E id \in AdminRouteIds(c, PendingIds) : approve_package_select(c, id)
    \/ \E c \in Clients : approve_package_commit(c)
    \/ \E c \in Clients : approve_package_rollback(c)
    \/ \E c \in Clients : \E id \in AdminRouteIds(c, PendingIds) : reject_package(c, id)
    \/ \E c \in Clients : \E id \in AdminRouteIds(c, PendingIds) : approve_destination_select(c, id)
    \/ \E c \in Clients : approve_destination_commit(c)
    \/ \E c \in Clients : approve_destination_rollback(c)
    \/ \E c \in Clients : \E id \in AdminRouteIds(c, PendingIds) : reject_destination(c, id)

SpecModeration == Init /\ [][NextModeration]_vars

(***************************************************************************)
(* The same workflow with the requests served one after the other: a       *)
(* request starts only when no other is between its SELECT and its commit. *)
(***************************************************************************)
AllIdle == \A c \in Clients : inflight[c] = Idle

NextSequential ==
    \/ AllIdle /\ NextModeration
    \/ ~AllIdle /\ \E c \in Clients : approve_destination_commit(c)
    \/ ~AllIdle /\ \E c \in Clients : approve_destination_rollback(c)
    \/ ~AllIdle /\ \E c \in Clients : approve_package_commit(c)
    \/ ~AllIdle /\ \E c \in Clients : approve_package_rollback(c)

SpecSequential == Init /\ [][NextSequential]_vars

(***************************************************************************)
(* Vendor accounts: registration, the admin's decision, and what a         *)
(* verified vendor submits in the meantime.                                *)
(***************************************************************************)
VendorIds == 1..(1 + MaxRegistrations + 1)

NextVendor ==
    \/ \E data \in RegisterInputs : register(data)
    \/ \E c \in Clients : \E id \in AdminRouteIds(c, VendorIds) : approve_vendor(c, id)
    \/ \E c \in Clients : \E id \in AdminRouteIds(c, VendorIds) : reject_vendor(c, id)
    \/ \E data \in DestinationInputs : vendor_add_destination("vendor1", data)

SpecVendor == Init /\ [][NextVendor]_vars

(***************************************************************************)
(* Bookings against the catalogue, while the vendor lists and unlists its  *)
(* packages.                                                               *)
(***************************************************************************)
PackageIds == {1, 2}

VendorRouteIds(c, ids) ==
    IF vendor_required(session[c]) = 0 THEN ids ELSE {NULL}

NextBooking ==
    \/ \E c \in {"customer1", "vendor1", "anon"}, data \in BookingInputs :
          create_booking(c, data)
    \/ \E c \in Clients : \E id \in VendorRouteIds(c, PackageIds) :
          toggle_package_status(c, id)
    \/ \E c \in Clients : \E id \in VendorRouteIds(c, PackageIds) :
          delete_vendor_package(c, id)

SpecBooking == Init /\ [][NextBooking]_vars

(***************************************************************************)
(* The life of a booking: a customer books, vendors, admins and others     *)
(* call the status route, anyone pays.  A second verified vendor, Wings,   *)
(* is registered and logged in; it owns no package.                        *)
(***************************************************************************)
SeedRivalUser ==
    [user_id |-> 5, username |-> "wings", email |-> "wings@tg.pk",
     password_hash |-> generate_password_hash("wingspw"),
     full_name |-> "Wings", phone |-> "0304", role |-> "vendor", is_active |-> 1,
     last_login |-> 1]

SeedRivalVendor ==
    [vendor_id |-> 2, user_id |-> 5, company_name |-> "Wings",
     business_license |-> "L-1", verification_status |-> "verified"]

InitStatus ==
    /\ users = SeedUsers \cup {SeedRivalUser}
    /\ vendor_profiles = SeedVendors \cup {SeedRivalVendor}
    /\ pending_destinations = {}
    /\ destinations = SeedDestinations
    /\ pending_packages = {}
    /\ packages = {SeedPackage}
    /\ bookings = {}
    /\ reviews = {}
    /\ session = [SeedSessions EXCEPT !["vendor2"] =
                    [user_id |-> 5, role |-> "vendor", vendor_id |-> 2]]
    /\ inflight = [c \in Clients |-> Idle]
    /\ resp = Response("none", NULL, 0)
    /\ next_user_id = 6
    /\ next_vendor_id = 3
    /\ next_review_id = 1
    /\ dest_origin = [d \in {1} |-> NULL]
    /\ pkg_origin = [p \in {1} |-> NULL]
    /\ client = "Groq"
    /\ pool = 0
    /\ threads = [t \in Threads |-> IdleThread]

StatusBookingInputs ==
    { BookingRequest,
      [BookingRequest EXCEPT !.preferred_airline = " wings "] }

BookingIds == 1..(MaxStatusBookings + 1)

StatusCallers == {"admin1", "vendor1", "vendor2", "customer1", "anon"}

(* A request the handler answers before reading the id of its route. *)
PaymentRouteIds(data, ids) ==
    IF CardValid(data) THEN ids ELSE {NULL}

NextStatus ==
    \/ /\ Cardinality(bookings) < MaxStatusBookings
       /\ \E data \in StatusBookingInputs : create_booking("customer1", data)
    \/ \E c \in StatusCallers : \E id \in VendorRouteIds(c, BookingIds) :
          \E data \in StatusInputs : update_booking_status(c, id, data)
    \/ \E data \in CardInputs : \E id \in PaymentRouteIds(data, BookingIds) :
          process_payment(id, data)

SpecStatus == InitStatus /\ [][NextStatus]_vars

(***************************************************************************)
(* The status route alone: the customer books, and the owning vendor, the  *)
(* other vendor, the customer and a client that is not logged in call      *)
(* update_booking_status.                                                  *)
(***************************************************************************)
TransitionCallers == {"vendor1", "vendor2", "customer1", "anon"}

NextTransitions ==
    \/ /\ Cardinality(bookings) < MaxStatusBookings
       /\ \E data \in StatusBookingInputs : create_booking("customer1", data)
    \/ \E c \in TransitionCallers : \E id \in VendorRouteIds(c, BookingIds) :
          \E data \in StatusInputs : update_booking_status(c, id, data)

SpecTransitions == InitStatus /\ [][NextTransitions]_vars

(***************************************************************************)
(* Reviews: a customer and a client that is not logged in review the       *)
(* seeded package and one that does not exist, while the vendor lists and  *)
(* unlists the package.                                                    *)
(***************************************************************************)
NextReview ==
    \/ \E c \in {"customer1", "anon"}, id \in PackageIds, data \in ReviewInputs :
          submit_review(c, id, data)
    \/ \E id \in PackageIds : toggle_package_status("vendor1", id)

SpecReview == Init /\ [][NextReview]_vars

(***************************************************************************)
(* Signing in: a client that is not logged in and the vendor's browser log *)
(* in as the seeded users and as whoever registers in the meantime.        *)
(***************************************************************************)
LoginClients == {"anon", "vendor1"}

NextLogin ==
    \/ \E c \in LoginClients, data \in LoginInputs : login(c, data)
    \/ \E data \in RegisterInputs : register(data)

SpecLogin == Init /\ [][NextLogin]_vars

(***************************************************************************)
(* One route behind each role gate, called by every client: the customer's *)
(* booking list (login_required), the destination submission               *)
(* (vendor_required) and the rejection of a submission (admin_required),   *)
(* while the customer books.                                               *)
(***************************************************************************)
NextGates ==
    \/ \E c \in Clients : get_my_bookings(c)
    \/ \E c \in Clients, data \in DestinationInputs : vendor_add_destination(c, data)
    \/ \E c \in Clients : \E id \in AdminRouteIds(c, PendingIds) : reject_destination(c, id)
    \/ create_booking("customer1", BookingRequest)

SpecGates == Init /\ [][NextGates]_vars

(***************************************************************************)
(* The vendor's package routes, called by every client: the owner, a rival *)
(* vendor, the admins, a customer and a client that is not logged in,      *)
(* while the customer books.                                               *)
(***************************************************************************)
NextPackages ==
    \/ \E c \in Clients : \E id \in VendorRouteIds(c, PackageIds) :
          \E data \in PackageInputs : update_vendor_package(c, id, data)
    \/ \E c \in Clients : \E id \in VendorRouteIds(c, PackageIds) :
          delete_vendor_package(c, id)
    \/ \E c \in Clients : \E id \in VendorRouteIds(c, PackageIds) :
          toggle_package_status(c, id)
    \/ create_booking("customer1", BookingRequest)

SpecPackages == InitStatus /\ [][NextPackages]_vars

(***************************************************************************)
(* The assistant, with and without its API key, while the vendor lists and *)
(* unlists its package and the customer books.                             *)
(***************************************************************************)
InitChat ==
    /\ users = SeedUsers
    /\ vendor_profiles = SeedVendors
    /\ pending_destinations = {}
    /\ destinations = SeedDestinations
    /\ pending_packages = {}
    /\ packages = {SeedPackage}
    /\ bookings = {}
    /\ reviews = {}
    /\ session = SeedSessions
    /\ inflight = [c \in Clients |-> Idle]
    /\ resp = Response("none", NULL, 0)
    /\ next_user_id = 5
    /\ next_vendor_id = 2
    /\ next_review_id = 1
    /\ dest_origin = [d \in {1} |-> NULL]
    /\ pkg_origin = [p \in {1} |-> NULL]
    /\ client \in {"Groq", "None"}
    /\ pool = 0
    /\ threads = [t \in Threads |-> IdleThread]

NextChat ==
    \/ \E data \in ChatInputs, completion \in Completions : chat_with_ai(data, completion)
    \/ toggle_package_status("vendor1", 1)
    \/ \E data \in BookingInputs : create_booking("customer1", data)

SpecChat == InitChat /\ [][NextChat]_vars

(***************************************************************************)
(* Requests on more worker threads than the pool has connections.          *)
(***************************************************************************)
NextPool ==
    \/ \E t \in Threads : create_booking_begin(t)
    \/ \E t \in Threads : create_booking_end(t)
    \/ \E t \in Threads : summarize_package_reviews_begin(t)
    \/ \E t \in Threads : summarize_package_reviews_query(t)
    \/ \E t \in Threads : summarize_package_reviews_finally(t)

SpecPool == Init /\ [][NextPool]_vars

(***************************************************************************)
(* Vocabulary of the properties.                                           *)
(***************************************************************************)
PendingDestination(rows, id) == { r \in rows : r.pending_id = id }
PendingPackage(rows, id) == { r \in rows : r.pending_pkg_id = id }

DestinationCopies(id) ==
    { d \in destinations : dest_origin[d.destination_id] = id }
PackageCopies(id) ==
    { p \in packages : pkg_origin[p.package_id] = id }

(* A request of handler op that client c had in flight ends with status code. *)
Completes(c, op, code) ==
    /\ inflight[c].op = op
    /\ inflight'[c] = Idle
    /\ resp'.op = op
    /\ resp'.code = code

(***************************************************************************)
(* C1: an approve request that read its row as 'pending' and commits       *)
(* inserts exactly one live row whose submitted fields are those of the    *)
(* pending row (a package also gets is_active = 1), and leaves the pending *)
(* row in place with status 'approved' and reviewed_by the approving       *)
(* admin; nothing else changes.                                            *)
(***************************************************************************)
C1_DestinationApproved(c) ==
    LET r == inflight[c]
        before == PendingDestination(pending_destinations, r.id)
        after == PendingDestination(pending_destinations', r.id)
        new == destinations' \ destinations
    IN  /\ destinations \subseteq destinations'
        /\ Cardinality(new) = 1
        /\ Cardinality(before) = 1
        /\ \A d \in new : \A row \in before :
              /\ \A f \in DestinationFields : d[f] = row[f]
              /\ dest_origin'[d.destination_id] = r.id
              /\ after = {[row EXCEPT !.status = "approved", !.reviewed_at = 1,
                                      !.reviewed_by = r.user_id]}
        /\ r.user_id = session[c].user_id
        /\ pending_destinations' \ after = pending_destinations \ before
        /\ UNCHANGED <<users, vendor_profiles, pending_packages, packages, bookings>>

C1_PackageApproved(c) ==
    LET r == inflight[c]
        before == PendingPackage(pending_packages, r.id)
        after == PendingPackage(pending_packages', r.id)
        new == packages' \ packages
    IN  /\ packages \subseteq packages'
        /\ Cardinality(new) = 1
        /\ Cardinality(before) = 1
        /\ \A p \in new : \A row \in before :
              /\ \A f \in PackageFields \cup {"vendor_id"} : p[f] = row[f]
              /\ p.is_active = 1
              /\ pkg_origin'[p.package_id] = r.id
              /\ after = {[row EXCEPT !.status = "approved", !.reviewed_at = 1,
                                      !.reviewed_by = r.user_id]}
        /\ r.user_id = session[c].user_id
        /\ pending_packages' \ after = pending_packages \ before
        /\ UNCHANGED <<users, vendor_profiles, pending_destinations, destinations,
                       bookings>>

C1_ApproveCopiesAndMarks ==
    [][\A c \in Clients :
          /\ Completes(c, "approve_destination", 200) => C1_DestinationApproved(c)
          /\ Completes(c, "approve_package", 200) => C1_PackageApproved(c)]_vars

C1_Witness ==
    /\ resp = Response("approve_package", 1, 200)
    /\ \E p \in PackageCopies(1) : p.is_active = 1 /\ p.name = "Hunza Trek"
    /\ \E row \in PendingPackage(pending_packages, 1) :
          row.status = "approved" /\ row.reviewed_by = 2

(***************************************************************************)
(* C2: with the requests served one after the other, an approve of an id   *)
(* whose row is not 'pending' (already approved, rejected or absent)       *)
(* answers 404, inserts nothing and changes no row; so a submission never  *)
(* has more than one live copy.                                            *)
(***************************************************************************)
C2_Refused(op, rows) ==
    (resp'.op = op /\ resp'.code \in {0, 404}) =>
        /\ resp'.code = 0 <=> \E r \in rows : r.status = "pending"
        /\ resp'.code = 404 => UNCHANGED <<tables, session, inflight, sequences, history>>

C2_AtMostOneCopy ==
    /\ \A id \in PendingIds : Cardinality(DestinationCopies(id)) <= 1
    /\ \A id \in PendingIds : Cardinality(PackageCopies(id)) <= 1

C2_SecondApproveRefused ==
    /\ []C2_AtMostOneCopy
    /\ [][/\ C2_Refused("approve_destination",
                        PendingDestination(pending_destinations, resp'.id))
          /\ C2_Refused("approve_package",
                        PendingPackage(pending_packages, resp'.id))]_vars

C2_Witness ==
    /\ resp = Response("approve_destination", 1, 404)
    /\ \E row \in PendingDestination(pending_destinations, 1) : row.status = "approved"
    /\ Cardinality(DestinationCopies(1)) = 1

(***************************************************************************)
(* C3: the status check is read-then-write.  Every approve request that    *)
(* read its row as 'pending' inserts its own live row when it commits,     *)
(* whatever the status of the row has become since; with two such requests *)
(* in flight for one pending id, two live rows for it are reached.         *)
(***************************************************************************)
C3_Copies(live, key, origin, id) ==
    Cardinality({ x \in live : origin[x[key]] = id })

C3_CommitIsUnconditional ==
    [][\A c \in Clients :
          /\ (inflight[c].op = "approve_destination" /\ inflight'[c] = Idle
                  /\ resp'.code # 500) =>
                /\ resp'.code = 200
                /\ C3_Copies(destinations', "destination_id", dest_origin', inflight[c].id) =
                   C3_Copies(destinations, "destination_id", dest_origin, inflight[c].id) + 1
          /\ (inflight[c].op = "approve_package" /\ inflight'[c] = Idle
                  /\ resp'.code # 500) =>
                /\ resp'.code = 200
                /\ C3_Copies(packages', "package_id", pkg_origin', inflight[c].id) =
                   C3_Copies(packages, "package_id", pkg_origin, inflight[c].id) + 1]_vars

C3_Witness ==
    /\ resp = Response("approve_destination", 1, 200)
    /\ Cardinality(DestinationCopies(1)) = 2
    /\ \E row \in PendingDestination(pending_destinations, 1) : row.status = "approved"

(***************************************************************************)
(* C4: an approve request that ends, committed or rolled back, has either  *)
(* inserted its live copy and left the pending row 'approved' with its own *)
(* admin as reviewer, or inserted nothing and left the pending table as it *)
(* was.                                                                    *)
(***************************************************************************)
C4_AllOrNothing(live, liveNext, pendingRows, pendingNext, r) ==
    \/ /\ liveNext # live
       /\ \E row \in pendingNext : row.status = "approved" /\ row.reviewed_by = r.user_id
    \/ /\ liveNext = live
       /\ pendingNext = pendingRows

C4_ApproveIsAtomic ==
    [][\A c \in Clients :
          /\ (inflight[c].op = "approve_destination" /\ inflight'[c] = Idle) =>
                C4_AllOrNothing(destinations, destinations',
                                PendingDestination(pending_destinations, inflight[c].id),
                                PendingDestination(pending_destinations', inflight[c].id),
                                inflight[c])
          /\ (inflight[c].op = "approve_package" /\ inflight'[c] = Idle) =>
                C4_AllOrNothing(packages, packages',
                                PendingPackage(pending_packages, inflight[c].id),
                                PendingPackage(pending_packages', inflight[c].id),
                                inflight[c])]_vars

C4_Witness ==
    /\ resp = Response("approve_package", 1, 500)
    /\ PackageCopies(1) = {}
    /\ \E row \in PendingPackage(pending_packages, 1) : row.status = "pending"

(***************************************************************************)
(* C5: reject of an id whose row is not 'pending' (approved, rejected or   *)
(* absent) fails and changes no row.                                       *)
(***************************************************************************)
C5_RejectOnlyPending ==
    [][/\ (resp'.op = "reject_destination" /\ resp'.id # NULL
             /\ ~ \E r \in PendingDestination(pending_destinations, resp'.id) :
                     r.status = "pending") =>
              (resp'.code # 200 /\ pending_destinations' = pending_destinations)
       /\ (resp'.op = "reject_package" /\ resp'.id # NULL
             /\ ~ \E r \in PendingPackage(pending_packages, resp'.id) :
                     r.status = "pending") =>
              (resp'.code # 200 /\ pending_packages' = pending_packages)]_vars

(***************************************************************************)
(* C6: a reject that succeeds on a 'pending' row leaves it 'rejected' with *)
(* reviewed_by the rejecting admin, changes no other row and leaves the    *)
(* live destinations and packages tables as they were.                     *)
(***************************************************************************)
C6_Rejected(before, after, rest, restNext, user_id) ==
    /\ \A row \in before :
          after = {[row EXCEPT !.status = "rejected", !.reviewed_at = 1,
                               !.reviewed_by = user_id]}
    /\ restNext = rest
    /\ UNCHANGED <<destinations, packages, history>>

C6_RejectMarksOnly ==
    [][\A c \in Clients, id \in PendingIds :
          /\ (reject_destination(c, id) /\ resp'.code = 200
                /\ \E r \in PendingDestination(pending_destinations, id) :
                      r.status = "pending") =>
                C6_Rejected(PendingDestination(pending_destinations, id),
                            PendingDestination(pending_destinations', id),
                            pending_destinations \ PendingDestination(pending_destinations, id),
                            pending_destinations' \ PendingDestination(pending_destinations', id),
                            session[c].user_id)
          /\ (reject_package(c, id) /\ resp'.code = 200
                /\ \E r \in PendingPackage(pending_packages, id) :
                      r.status = "pending") =>
                C6_Rejected(PendingPackage(pending_packages, id),
                            PendingPackage(pending_packages', id),
                            pending_packages \ PendingPackage(pending_packages, id),
                            pending_packages' \ PendingPackage(pending_packages', id),
                            session[c].user_id)]_vars

C6_Witness ==
    /\ resp = Response("reject_destination", 1, 200)
    /\ \E row \in PendingDestination(pending_destinations, 1) :
          row.status = "rejected" /\ row.reviewed_by = 2
    /\ DestinationCopies(1) = {}

(***************************************************************************)
(* C7: approve_vendor on a 'pending' vendor sets verification_status to    *)
(* 'verified' and the owning user's is_active to 1 together or, when a     *)
(* statement fails, changes neither; on a vendor that is verified or       *)
(* absent it answers 404 and changes nothing.  So a vendor's profile is    *)
(* 'verified' exactly when its user is active.                             *)
(***************************************************************************)
C7_VerifiedIffActive ==
    \A v \in vendor_profiles : \A u \in users :
        u.user_id = v.user_id =>
            (v.verification_status = "verified" <=> u.is_active = 1)

C7_Step ==
    (resp'.op = "approve_vendor" /\ resp'.id # NULL) =>
        LET before == { v \in vendor_profiles : v.vendor_id = resp'.id }
            owners == { u \in users : \E v \in before : u.user_id = v.user_id }
        IN  IF \E v \in before : v.verification_status = "pending"
            THEN \/ /\ resp'.code = 200
                    /\ vendor_profiles' = (vendor_profiles \ before) \cup
                          { [v EXCEPT !.verification_status = "verified"] : v \in before }
                    /\ users' = (users \ owners) \cup
                          { [u EXCEPT !.is_active = 1] : u \in owners }
                 \/ /\ resp'.code = 500
                    /\ UNCHANGED <<users, vendor_profiles>>
            ELSE /\ resp'.code = 404
                 /\ UNCHANGED <<users, vendor_profiles>>

C7_ApproveVendorIsAtomic ==
    /\ []C7_VerifiedIffActive
    /\ [][C7_Step]_vars

C7_Witness ==
    /\ resp = Response("approve_vendor", 2, 200)
    /\ \E v \in vendor_profiles :
          /\ v.vendor_id = 2 /\ v.verification_status = "verified"
          /\ \E u \in users : u.user_id = v.user_id /\ u.is_active = 1

(***************************************************************************)
(* C8: after a successful reject_vendor the profile and the user row are   *)
(* gone and no row of pending_destinations, pending_packages, packages or  *)
(* bookings references the deleted vendor_id or user_id.                   *)
(***************************************************************************)
C8_RejectLeavesNoOrphans ==
    [][(resp'.op = "reject_vendor" /\ resp'.code = 200) =>
          LET gone == { v \in vendor_profiles : v.vendor_id = resp'.id }
          IN  \A v \in gone :
                /\ v \notin vendor_profiles'
                /\ \A u \in users' : u.user_id # v.user_id
                /\ \A r \in pending_destinations' : r.vendor_id # v.vendor_id
                /\ \A r \in pending_packages' : r.vendor_id # v.vendor_id
                /\ \A r \in packages' : r.vendor_id # v.vendor_id
                /\ \A r \in bookings' : r.user_id # v.user_id]_vars

(***************************************************************************)
(* C9: the total_price of every stored booking is the sum over adults,     *)
(* children and infants of the count times the package's price for that    *)
(* traveler type in the booking's seating class.                           *)
(***************************************************************************)
C9_TierPrice(p, seating, traveler) ==
    CASE seating = "business" /\ traveler = "adult" -> p.business_adult_price
      [] seating = "business" /\ traveler = "child" -> p.business_child_price
      [] seating = "business" /\ traveler = "infant" -> p.business_infant_price
      [] seating = "economy" /\ traveler = "adult" -> p.economy_adult_price
      [] seating = "economy" /\ traveler = "child" -> p.economy_child_price
      [] seating = "economy" /\ traveler = "infant" -> p.economy_infant_price

C9_TotalIsComputed ==
    \A b \in bookings : \A p \in packages :
        p.package_id = b.package_id =>
            b.total_price = b.num_adults * C9_TierPrice(p, b.preferred_seating, "adult")
                          + b.num_children * C9_TierPrice(p, b.preferred_seating, "child")
                          + b.num_infants * C9_TierPrice(p, b.preferred_seating, "infant")

(***************************************************************************)
(* C10: create_booking inserts a booking only for a package that exists    *)
(* and is listed (is_active = 1); otherwise it answers with an error and   *)
(* inserts nothing.                                                        *)
(***************************************************************************)
C10_OnlyListedPackages ==
    [][resp'.op = "create_booking" =>
          /\ \A b \in bookings' \ bookings :
                \E p \in packages : p.package_id = b.package_id /\ p.is_active = 1
          /\ (resp'.id # NULL
                /\ ~ \E p \in packages : p.package_id = resp'.id /\ p.is_active = 1) =>
                (resp'.code >= 400 /\ bookings' = bookings)]_vars

(***************************************************************************)
(* Vocabulary of the booking properties.                                   *)
(***************************************************************************)
Booking(rows, id) == { b \in rows : b.booking_id = id }

PaymentFields(b) ==
    <<b.payment_status, b.payment_method, b.payment_date, b.payment_transaction_id>>

StatusFields(b) == <<b.status, b.rejection_reason>>

(* The vendor profile of the caller is the vendor of the booking's package. *)
OwnsPackageOf(c, id) ==
    \E b \in Booking(bookings, id), p \in packages, v \in vendor_profiles :
        /\ p.package_id = b.package_id
        /\ v.vendor_id = p.vendor_id
        /\ v.user_id = session[c].user_id

(***************************************************************************)
(* C11: update_booking_status called by a client whose vendor profile does *)
(* not own the booking's package answers with an error and leaves the      *)
(* status and rejection_reason of every booking unchanged, whatever the    *)
(* booking's preferred_airline.                                            *)
(***************************************************************************)
C11_OnlyOwnerChangesStatus ==
    [][\A c \in StatusCallers, id \in BookingIds, data \in StatusInputs :
          (update_booking_status(c, id, data) /\ ~OwnsPackageOf(c, id)) =>
              /\ resp'.code >= 400
              /\ \A b \in bookings : \E n \in Booking(bookings', b.booking_id) :
                    StatusFields(n) = StatusFields(b)]_vars

(***************************************************************************)
(* C12: update_booking_status called by an admin, for an existing booking  *)
(* and one of the four statuses, stores the status (or fails on the        *)
(* database with 500): it is not turned away by the gate or by the         *)
(* ownership check.                                                        *)
(***************************************************************************)
C12_AdminSetsAnyStatus ==
    [][\A c \in StatusCallers, id \in BookingIds, data \in StatusInputs :
          ( /\ update_booking_status(c, id, data)
            /\ session[c].role = "admin"
            /\ Booking(bookings, id) # {}
            /\ data.status \in BookingStatuses ) =>
              /\ resp'.code \in {200, 500}
              /\ resp'.code = 200 =>
                    \A n \in Booking(bookings', id) : n.status = data.status]_vars

(***************************************************************************)
(* C13: a booking is inserted with its payment fields unset; every step    *)
(* other than process_payment leaves the payment fields of every booking   *)
(* unchanged, and process_payment leaves the status and rejection_reason   *)
(* of every booking unchanged.                                             *)
(***************************************************************************)
C13_PaymentFieldsFrame ==
    [][/\ \A n \in bookings' :
            Booking(bookings, n.booking_id) = {} =>
                /\ resp'.op = "create_booking"
                /\ PaymentFields(n) = <<NoText, NoText, NULL, NoText>>
       /\ \A b \in bookings : \E n \in Booking(bookings', b.booking_id) :
            /\ resp'.op # "process_payment" => PaymentFields(n) = PaymentFields(b)
            /\ resp'.op = "process_payment" => StatusFields(n) = StatusFields(b)]_vars

C13_Witness ==
    /\ resp = Response("update_booking_status", 1, 200)
    /\ \E b \in Booking(bookings, 1) :
          /\ b.payment_status = "Paid"
          /\ b.status = "cancelled"
          /\ b.rejection_reason = "sold out"

(***************************************************************************)
(* C14: a booking is inserted with status 'pending'; an update request     *)
(* that passes the gate and the ownership check with one of the four       *)
(* statuses is never refused on account of the current status and stores   *)
(* the requested status over any current one; a request with another       *)
(* status value answers 400 and changes nothing; the stored status is      *)
(* always one of the four.                                                 *)
(***************************************************************************)
C14_StatusInRange ==
    \A b \in bookings : b.status \in BookingStatuses

C14_Step ==
    /\ \A n \in bookings' :
          Booking(bookings, n.booking_id) = {} => n.status = "pending"
    /\ \A c \in { k \in TransitionCallers : vendor_required(session[k]) = 0 },
          id \in BookingIds, data \in StatusInputs :
          update_booking_status(c, id, data) =>
              /\ data.status \notin BookingStatuses =>
                    (resp'.code = 400 /\ bookings' = bookings)
              /\ ( /\ data.status \in BookingStatuses
                   /\ \E name \in SelectCompanyName(session[c].user_id) :
                         SelectVendorBooking(id, name) # {} ) =>
                    resp'.code \in {200, 500}
              /\ resp'.code = 200 =>
                    /\ Booking(bookings', id) # {}
                    /\ \A n \in Booking(bookings', id) : n.status = data.status

C14_AnyStatusToAnyStatus ==
    []C14_StatusInRange /\ [][C14_Step]_vars

C14_Witness ==
    /\ resp = Response("update_booking_status", 1, 200)
    /\ \E b \in Booking(bookings, 1) :
          /\ b.status = "pending"
          /\ b.rejection_reason = "sold out"

(***************************************************************************)
(* C15: a request that sets a booking to 'cancelled' without a reason      *)
(* answers with an error and changes nothing; with a reason, a successful  *)
(* request stores status and rejection_reason together.                    *)
(***************************************************************************)
C15_CancelNeedsReason ==
    [][\A c \in StatusCallers, id \in BookingIds, data \in StatusInputs :
          (update_booking_status(c, id, data) /\ data.status = "cancelled") =>
              IF RejectionReason(data) = ""
              THEN resp'.code >= 400 /\ bookings' = bookings
              ELSE resp'.code = 200 =>
                     \A n \in Booking(bookings', id) :
                        StatusFields(n) = <<"cancelled", RejectionReason(data)>>]_vars

(***************************************************************************)
(* C16: process_payment with a well-formed card on an existing booking is  *)
(* either declined, changing nothing, or sets payment_status to 'Paid'     *)
(* with a transaction id and a timestamp; with a malformed card it answers *)
(* 400; with a well-formed card and an absent booking id it answers 404    *)
(* (or 500 when the database fails); no row changes in the error cases.    *)
(***************************************************************************)
C16_WellFormed(data) ==
    /\ SixteenDigits(RemoveSpaces(data.card_number))
    /\ StripHolder(data.card_holder) # ""
    /\ data.expiry_month # ""
    /\ data.expiry_year # ""
    /\ ThreeDigits(data.cvv)

C16_PaymentOutcomes ==
    [][\A id \in BookingIds \cup {NULL}, data \in CardInputs :
          process_payment(id, data) =>
              IF ~C16_WellFormed(data)
              THEN resp'.code = 400 /\ bookings' = bookings
              ELSE IF Booking(bookings, id) = {}
              THEN resp'.code \in {404, 500} /\ bookings' = bookings
              ELSE \/ resp'.code >= 400 /\ bookings' = bookings
                   \/ /\ resp'.code = 200
                      /\ \A n \in Booking(bookings', id) :
                            /\ n.payment_status = "Paid"
                            /\ n.payment_transaction_id \in generate_transaction_id
                            /\ n.payment_date = CURRENT_TIMESTAMP]_vars

(***************************************************************************)
(* C17: a successful toggle_package_status by the owning vendor changes    *)
(* only is_active of that package and flips it between 0 and 1, the only   *)
(* values is_active ever holds; two consecutive successful toggles         *)
(* therefore leave is_active as it was before the first.                   *)
(***************************************************************************)
C17_ActiveIsBit ==
    \A p \in packages : p.is_active \in {0, 1}

C17_Step ==
    \A c \in Clients, id \in PackageIds :
        (toggle_package_status(c, id) /\ resp'.code = 200) =>
            /\ SelectPackage(id) # {}
            /\ \A p \in SelectPackage(id) :
                  /\ p.vendor_id = session[c].vendor_id
                  /\ \E n \in packages' :
                        /\ n = [p EXCEPT !.is_active = 1 - p.is_active]
                        /\ packages' = (packages \ {p}) \cup {n}

C17_ToggleTwiceRestores ==
    []C17_ActiveIsBit /\ [][C17_Step]_vars

C17_Witness ==
    /\ resp = Response("toggle_package_status", 1, 200)
    /\ \E p \in packages : p.package_id = 1 /\ p.is_active = 1

(***************************************************************************)
(* C18: the catalogue lists only packages with is_active = 1; after a      *)
(* successful delete_vendor_package or deactivating toggle the package is  *)
(* not listed, after an activating toggle it is listed again, and no step  *)
(* removes a row from the packages table.                                  *)
(***************************************************************************)
C18_ListedIffActive ==
    \A p \in packages : p \in get_packages <=> p.is_active = 1

C18_Step ==
    /\ \A p \in packages : \E n \in packages' : n.package_id = p.package_id
    /\ (resp'.op = "delete_vendor_package" /\ resp'.code = 200) =>
          /\ \A n \in get_packages' : n.package_id # resp'.id
          /\ \E n \in packages' : n.package_id = resp'.id
    /\ (resp'.op = "toggle_package_status" /\ resp'.code = 200) =>
          \A p \in packages :
             p.package_id = resp'.id =>
                ((p \in get_packages) <=>
                    ~ \E n \in get_packages' : n.package_id = p.package_id)

C18_CatalogHidesDisabled ==
    []C18_ListedIffActive /\ [][C18_Step]_vars

C18_Witness ==
    /\ resp = Response("delete_vendor_package", 1, 200)
    /\ get_packages = {}
    /\ \E p \in packages : p.package_id = 1 /\ p.is_active = 0

(***************************************************************************)
(* C19: submit_review with a rating that is not an integer from 1 to 5     *)
(* is refused (400 when it is the only fault) and writes no row; with an   *)
(* integer from 1 to 5 on an existing package a successful request         *)
(* appends exactly one row holding the rating; no step changes or removes  *)
(* a stored review.                                                        *)
(***************************************************************************)
C19_IntegerOneToFive(rating) ==
    \/ rating.type = "number" /\ rating.tenths = 0 /\ rating.whole \in 1..5
    \/ rating.type = "text" /\ rating.text = "4"

C19_RatingValidated ==
    [][/\ \A r \in reviews : r \in reviews'
       /\ \A c \in {"customer1", "anon"}, id \in PackageIds, data \in ReviewInputs :
            submit_review(c, id, data) =>
                IF ~C19_IntegerOneToFive(data.rating)
                THEN resp'.code >= 400 /\ reviews' = reviews
                ELSE resp'.code = 200 =>
                       \E n \in reviews' :
                          /\ reviews' = reviews \cup {n}
                          /\ n \notin reviews
                          /\ n.package_id = id
                          /\ n.rating = IntOf(data.rating)]_vars

(***************************************************************************)
(* C20: login with the username of an existing user and a password that    *)
(* matches neither the secure hash nor the legacy digest answers 401,      *)
(* leaves every USERS row as it was (last_login, password_hash) and        *)
(* leaves every session as it was.                                         *)
(***************************************************************************)
C20_WrongPassword(data) ==
    /\ data.password # ""
    /\ \E u \in users :
          /\ u.username = Strip(data.username)
          /\ u.password_hash # generate_password_hash(data.password)
          /\ u.password_hash # hash_password(data.password)

C20_WrongPasswordWritesNothing ==
    [][\A c \in LoginClients, data \in LoginInputs :
          (C20_WrongPassword(data) /\ login(c, data)) =>
              /\ resp'.op = "login"
              /\ resp'.code = 401
              /\ users' = users
              /\ session' = session]_vars

C20_Witness ==
    /\ resp = Response("login", 2, 401)
    /\ \E u \in users :
          /\ u.user_id = 2
          /\ u.last_login = 1
          /\ u.password_hash = hash_password("opspw12")
    /\ session["anon"] = NoSession


(***************************************************************************)
(* C21: a login with the correct password for a vendor that is not         *)
(* approved (the user inactive, or the profile not 'verified') is answered *)
(* 403, writes no session key and leaves every last_login as it was, so a  *)
(* client that had no session is still refused with 401 by login_required. *)
(***************************************************************************)
C21_UnapprovedVendor(data) ==
    \E row \in SelectUser(Strip(data.username)) :
        /\ row.user.role = "vendor"
        /\ \/ check_password_hash(row.user.password_hash, data.password)
           \/ hash_password(data.password) = row.user.password_hash
        /\ row.user.is_active # 1 \/ row.verification_status # "verified"

C21_UnapprovedVendorGetsNoSession ==
    [][\A c \in LoginClients, data \in LoginInputs :
          (data.password # "" /\ C21_UnapprovedVendor(data) /\ login(c, data)) =>
              /\ resp'.code = 403
              /\ session' = session
              /\ \A u \in users : \E w \in users' :
                     w.user_id = u.user_id /\ w.last_login = u.last_login
              /\ session[c].user_id = NULL => login_required(session'[c]) = 401]_vars

C21_Witness ==
    /\ resp.op = "login" /\ resp.code = 403
    /\ \E u \in users : u.user_id = resp.id /\ u.role = "vendor" /\ u.is_active = 0
    /\ session["anon"].user_id = NULL

(***************************************************************************)
(* C22: a user with role vendor is active only if its vendor profile is    *)
(* 'verified'.  register creates a vendor inactive with a 'pending'        *)
(* profile and creates no active user other than a customer; a step that   *)
(* changes is_active or verification_status of a row is an approve_vendor. *)
(***************************************************************************)
C22_ActiveVendorIsVerified ==
    \A u \in users :
        (u.role = "vendor" /\ u.is_active = 1) =>
            \E v \in vendor_profiles :
                v.user_id = u.user_id /\ v.verification_status = "verified"

C22_Step ==
    /\ \A w \in users' :
          (\A u \in users : u.user_id # w.user_id) =>
              /\ resp'.op = "register"
              /\ w.role # "customer" => w.is_active = 0
              /\ w.role = "vendor" =>
                    \E v \in vendor_profiles' :
                        v.user_id = w.user_id /\ v.verification_status = "pending"
    /\ \A v \in vendor_profiles' :
          (\A x \in vendor_profiles : x.vendor_id # v.vendor_id) =>
              resp'.op = "register" /\ v.verification_status = "pending"
    /\ \A u \in users : \A w \in users' :
          (u.user_id = w.user_id /\ u.is_active # w.is_active) =>
              resp'.op = "approve_vendor"
    /\ \A x \in vendor_profiles : \A v \in vendor_profiles' :
          (x.vendor_id = v.vendor_id /\ x.verification_status # v.verification_status) =>
              resp'.op = "approve_vendor"

C22_VendorsInactiveUntilApproved ==
    /\ []C22_ActiveVendorIsVerified
    /\ [][C22_Step]_vars

C22_Witness ==
    /\ resp = Response("register", NULL, 201)
    /\ \E u \in users :
          /\ u.role = "vendor" /\ u.is_active = 0 /\ u.last_login = NULL
          /\ \E v \in vendor_profiles :
                v.user_id = u.user_id /\ v.verification_status = "pending"

(***************************************************************************)
(* C25: a login that verifies the password only through the legacy SHA-256 *)
(* digest replaces the stored hash, in the same request, by the secure     *)
(* hash of the same password.                                              *)
(***************************************************************************)
C25_LegacyVerified(data) ==
    /\ data.password # ""
    /\ \E row \in SelectUser(Strip(data.username)) :
          /\ ~check_password_hash(row.user.password_hash, data.password)
          /\ hash_password(data.password) = row.user.password_hash

C25_HashAfter(data) ==
    { w.password_hash : w \in { x \in users' : x.username = Strip(data.username) } }

C25_OthersKeepHash(data) ==
    \A u \in users : u.username # Strip(data.username) =>
        \E w \in users' : w.user_id = u.user_id /\ w.password_hash = u.password_hash

C25_Step ==
    \A u \in users : \A w \in users' :
        (u.user_id = w.user_id /\ u.password_hash # w.password_hash) =>
            /\ resp'.op = "login" /\ resp'.id = u.user_id
            /\ \E data \in LoginInputs :
                  /\ u.username = Strip(data.username)
                  /\ u.password_hash = hash_password(data.password)
                  /\ w.password_hash = generate_password_hash(data.password)
                  /\ check_password_hash(w.password_hash, data.password)

C27_RejectOnlyPendingVendor ==
    [][(resp'.op = "reject_vendor" /\ resp'.id # NULL) =>
          \A v \in vendor_profiles :
              (v.vendor_id = resp'.id /\ v.verification_status # "pending") =>
                  /\ resp'.code >= 400
                  /\ UNCHANGED <<users, vendor_profiles>>]_vars

(***************************************************************************)
(* C29: a booking whose payment_status is 'Paid' keeps payment_status,     *)
(* payment_method, payment_date and payment_transaction_id under every     *)
(* later operation, a further successful process_payment included.         *)
(***************************************************************************)
C29_PaidIsFinal ==
    [][\A b \in bookings :
          b.payment_status = "Paid" =>
              \E n \in bookings' :
                  n.booking_id = b.booking_id /\ PaymentFields(n) = PaymentFields(b)]_vars

(***************************************************************************)
(* C23: on an /api/ route the role gate runs before the handler body.  A   *)
(* login_required route answers 401 to a session without user_id; a        *)
(* vendor_required route answers 401 without user_id and 403 to a role     *)
(* other than vendor or admin; an admin_required route answers 401 without *)
(* user_id and 403 to a role other than admin.  A refused request runs no  *)
(* handler code: no table, sequence, session or pending request changes.   *)
(***************************************************************************)
C23_Refusal(s, roles) ==
    IF s.user_id = NULL THEN 401
    ELSE IF s.role \notin roles THEN 403
    ELSE 0

C23_HandlerNotRun(c, code) ==
    /\ resp'.code = code
    /\ resp'.id = NULL
    /\ UNCHANGED <<tables, sequences, history, session, inflight>>

C23_GatesRunFirst ==
    [][\A c \in Clients :
          /\ (C23_Refusal(session[c], {"customer", "vendor", "admin"}) # 0
                /\ get_my_bookings(c)) =>
                 C23_HandlerNotRun(c, 401)
          /\ \A data \in DestinationInputs :
                (C23_Refusal(session[c], {"vendor", "admin"}) # 0
                    /\ vendor_add_destination(c, data)) =>
                     C23_HandlerNotRun(c, C23_Refusal(session[c], {"vendor", "admin"}))
          /\ \A id \in PendingIds \cup {NULL} :
                (C23_Refusal(session[c], {"admin"}) # 0
                    /\ reject_destination(c, id)) =>
                     C23_HandlerNotRun(c, C23_Refusal(session[c], {"admin"}))]_vars

C23_Witness ==
    /\ resp = Response("reject_destination", NULL, 403)
    /\ \E r \in pending_destinations : r.status = "pending"

(***************************************************************************)
(* C28: update_vendor_package, delete_vendor_package and                   *)
(* toggle_package_status modify a package only when the session's          *)
(* vendor_id equals the package's vendor_id; a caller the vendor gate      *)
(* admits is otherwise answered 403, or 404 when the package id is absent, *)
(* and no package row changes; an admin session without vendor_id is such  *)
(* a caller.                                                               *)
(***************************************************************************)
C28_Owns(c, package_id) ==
    \E p \in packages : p.package_id = package_id /\ p.vendor_id = session[c].vendor_id

C28_Refused(c, package_id) ==
    /\ packages' = packages
    /\ vendor_required(session[c]) = 0 =>
          resp'.code = IF \E p \in packages : p.package_id = package_id
                       THEN 403 ELSE 404

C28_OnlyOwnerModifies ==
    [][\A c \in Clients : \A id \in PackageIds \cup {NULL} :
          ~C28_Owns(c, id) =>
              /\ \A data \in PackageInputs :
                    update_vendor_package(c, id, data) => C28_Refused(c, id)
              /\ delete_vendor_package(c, id) => C28_Refused(c, id)
              /\ toggle_package_status(c, id) => C28_Refused(c, id)]_vars

C28_Witness ==
    /\ resp = Response("update_vendor_package", 1, 403)
    /\ \E p \in packages : p.package_id = 1 /\ p.name = "Hunza Trek" /\ p.vendor_id = 1

(***************************************************************************)
(* C30: register leaves no partial account.  A request rejected for a      *)
(* duplicate username or email, an unknown account type, or a vendor       *)
(* registration without company_name or business_license is answered 400   *)
(* and adds no users row and no vendor_profiles row; so no two users share *)
(* a username or an email and every vendor user has exactly one profile.   *)
(***************************************************************************)
C30_Rejected(data) ==
    \/ \E u \in users : \/ u.username = Strip(data.username)
                        \/ u.email = Lower(Strip(data.email))
    \/ data.account_type \notin user_roles
    \/ /\ data.account_type = "vendor"
       /\ "" \in {Strip(data.company_name), Strip(data.business_license)}

C30_AccountsWhole ==
    /\ \A u \in users : \A w \in users :
          (u.username = w.username \/ u.email = w.email) => u = w
    /\ \A u \in users :
          u.role = "vendor" =>
              Cardinality({ v \in vendor_profiles : v.user_id = u.user_id }) = 1

C30_Step ==
    \A data \in RegisterInputs :
        (C30_Rejected(data) /\ register(data)) =>
            /\ resp' = Response("register", NULL, 400)
            /\ users' = users
            /\ vendor_profiles' = vendor_profiles

C24_ChatDegradesGracefully ==
    [][\A data \in ChatInputs, completion \in Completions :
          (/\ StripMessage(data.message) # <<>>
           /\ client = "None" \/ completion = "raise"
           /\ chat_with_ai(data, completion)) =>
              resp'.code # 500]_vars

(***************************************************************************)
(* C26: a handler that acquires a pool connection releases it exactly once *)
(* before its response is produced, on every path; when every request has  *)
(* completed no connection is checked out, and at no time are more than    *)
(* five checked out.                                                       *)
(***************************************************************************)
C26_Open(state) == { t \in Threads : state[t].connection = "open" }

C26_PoolAccount ==
    /\ pool = Cardinality(C26_Open(threads))
    /\ pool <= pool_max
    /\ \A t \in Threads : threads[t].handler = "idle" => threads[t].connection = "none"
    /\ (\A t \in Threads : threads[t].handler = "idle") => pool = 0

C26_Step ==
    /\ pool' = pool + Cardinality(C26_Open(threads') \ C26_Open(threads))
                    - Cardinality(C26_Open(threads) \ C26_Open(threads'))
    /\ \A t \in Threads :
          (threads[t].handler # "idle" /\ threads'[t].handler = "idle") =>
              /\ resp'.op = threads[t].handler
              /\ t \notin C26_Open(threads')

C26_ConnectionsReturned ==
    /\ []C26_PoolAccount
    /\ [][C26_Step]_vars

C26_Witness ==
    /\ pool = pool_max
    /\ \E t \in Threads :
          threads[t] = [handler |-> "summarize_package_reviews", connection |-> "closed"]
    /\ resp = Response("create_booking", NULL, 500)

=============================================================================
